---- MODULE Spec2Model ----
(***************************************************************************)
(* Model of the request-admission layer of the AccuRead backend:           *)
(* backend/middleware/rateLimiter.py (RateLimiter, rate_limit_middleware,  *)
(* RateLimit) over a Redis-like shared store, and the application object   *)
(* of backend/main.py.                                                     *)
(*                                                                         *)
(* Every await / store round trip of a handler is one atomic step; the     *)
(* steps of concurrent requests interleave freely.  Time is in whole       *)
(* seconds since the start of the run.                                     *)
(***************************************************************************)
EXTENDS Integers, Sequences, FiniteSets, TLC

VARIABLES store, storeUp, now, pc, call, hist, env, budget, export_jobs, tasks

vars == <<store, storeUp, now, pc, call, hist, env, budget, export_jobs, tasks>>

(***************************************************************************)
(* Bounds of the model.                                                    *)
(***************************************************************************)
\* concurrent requests in flight in the race scenario
RaceCallers == 3
\* requests the environment issues in the general scenario
MaxCalls == 4
\* the clock stops advancing here
MaxTime == 360
\* concurrent requests in the resolution scenario, and the requests issued in it
ResolveCallers == 2
ResolveCalls == 2
\* concurrent clients in the status scenario, and the calls issued in it
PeekCallers == 2
PeekCalls == 6
\* concurrent requests in the slow-request scenario, and the requests issued in it
StallCallers == 2
StallCalls == 6
\* concurrent calls of the cache scenario, and the calls made in the cache scenarios
CacheCallers == 2
CacheCalls == 5
\* export jobs created and requests made in the export scenario
MaxJobs == 2
ExportCalls == 4
\* calls made in the user cache scenario and in the session scenario
UserCalls == 4
SessionCalls == 4
\* requests and operator calls issued in the administration scenario
AdminCalls == 7
\* the amounts by which the clock advances in one step, per scenario
SeqTicks == {30, 300}
RaceTicks == {300}
MixedTicks == {300}
CacheTicks == {60}
StallTicks == {150}
AdminTicks == {300}

Null == "null"
NoExpiry == 0 - 1
NoKey == 0 - 2
Unlimited == 0 - 1

(***************************************************************************)
(* Text conversions: str(int) and int(str) on decimal digit sequences.      *)
(***************************************************************************)
DigitChars == <<"0", "1", "2", "3", "4", "5", "6", "7", "8", "9">>

CharValue(ch) == CHOOSE d \in 0..9 : DigitChars[d + 1] = ch

RECURSIVE Digits(_)
Digits(n) == IF n < 10 THEN <<DigitChars[n + 1]>> ELSE Append(Digits(n \div 10), DigitChars[(n % 10) + 1])

\* Python's str() of an int
Str(n) == IF n < 0 THEN <<"-">> \o Digits(0 - n) ELSE Digits(n)

RECURSIVE DigitsValue(_)
DigitsValue(s) ==
  IF s = <<>> THEN 0 ELSE 10 * DigitsValue(SubSeq(s, 1, Len(s) - 1)) + CharValue(s[Len(s)])

\* Python's int() of a decimal string
IntOf(s) == IF s # <<>> /\ s[1] = "-" THEN 0 - DigitsValue(Tail(s)) ELSE DigitsValue(s)

(***************************************************************************)
(* RateLimiter.rate_limits and the policy lookup with its default.         *)
(***************************************************************************)
rate_limits ==
  [default |-> [requests |-> 100, window |-> 60],
   ocr     |-> [requests |-> 30,  window |-> 60],
   upload  |-> [requests |-> 10,  window |-> 60],
   auth    |-> [requests |-> 5,   window |-> 300],
   export  |-> [requests |-> 3,   window |-> 300],
   admin   |-> [requests |-> 200, window |-> 60]]

Tiers == DOMAIN rate_limits

\* self.rate_limits.get(endpoint_type, self.rate_limits['default'])
PolicyFor(t) == IF t \in DOMAIN rate_limits THEN rate_limits[t] ELSE rate_limits["default"]

(***************************************************************************)
(* The shared store (Redis): key -> [val, exp]; exp is the absolute expiry *)
(* time or NoExpiry.  Expired keys are removed as the clock advances.      *)
(***************************************************************************)
IsCounterKey(k) == k[1] = "rate_limit"

\* faulty variant: GET that finds no counter
RedisGetNil(s, k) ==
  IF k \notin DOMAIN s \/ IsCounterKey(k) THEN [nil |-> TRUE]
  ELSE [nil |-> FALSE, v |-> s[k].val]

\* CacheManager._make_key: f"accuread:{prefix}:{identifier}"
_make_key(prefix, identifier) == <<"accuread", prefix, identifier>>

\* the keys whose value is a number, replied as its decimal string
HoldsCount(k) == IsCounterKey(k) \/ (Len(k) = 3 /\ k[1] = "accuread" /\ k[2] = "rate_limit")

\* GET: nil for a missing key, else the string reply (decode_responses=True)
RedisGet(s, k) ==
  IF k \notin DOMAIN s THEN [nil |-> TRUE]
  ELSE [nil |-> FALSE, v |-> IF HoldsCount(k) THEN Str(s[k].val) ELSE s[k].val]

\* SETEX key seconds value: (over)writes the value with an expiry
RedisSetex(s, k, secs, v, t) ==
  [j \in DOMAIN s \cup {k} |-> IF j = k THEN [val |-> v, exp |-> t + secs] ELSE s[j]]

\* INCR: creates the key at 1 without expiry, or adds one and keeps the expiry
RedisIncr(s, k) ==
  IF k \in DOMAIN s THEN [s EXCEPT ![k].val = @ + 1]
  ELSE [j \in DOMAIN s \cup {k} |-> IF j = k THEN [val |-> 1, exp |-> NoExpiry] ELSE s[j]]

\* faulty variant: EXPIRE that creates a missing key
RedisExpireCreating(s, k, secs, t) ==
  [j \in DOMAIN s \cup {k} |->
     IF j = k THEN [val |-> IF k \in DOMAIN s THEN s[k].val ELSE 0, exp |-> t + secs] ELSE s[j]]

\* EXPIRE key seconds: (re)sets the expiry of an existing key
RedisExpire(s, k, secs, t) ==
  IF k \in DOMAIN s THEN [s EXCEPT ![k].exp = t + secs] ELSE s

\* TTL: remaining seconds, -1 without expiry, -2 for a missing key
RedisTtl(s, k, t) ==
  IF k \notin DOMAIN s THEN NoKey
  ELSE IF s[k].exp = NoExpiry THEN NoExpiry ELSE s[k].exp - t

\* faulty variant: DEL that removes nothing
RedisDeleteNothing(s, k) == s

\* DEL: removes the key if it exists
RedisDelete(s, k) == [j \in DOMAIN s \ {k} |-> s[j]]

\* KEYS rate_limit:* : the keys that start with the counter prefix
RedisKeys(s) == {k \in DOMAIN s : IsCounterKey(k)}

\* the keys that survive to time t
Unexpired(s, t) ==
  [k \in {j \in DOMAIN s : s[j].exp = NoExpiry \/ s[j].exp > t} |-> s[k]]

(***************************************************************************)
(* Requests.  A path is a sequence of segments ('/upload' in path is       *)
(* membership of the segment); a bearer token is its number of             *)
(* dot-separated parts and what its second part decodes to.                *)
(***************************************************************************)
NoAuth == [present |-> FALSE]

HTTPAuthorizationCredentials(tok) == [present |-> TRUE, credentials |-> tok]

Claims(sub, uid) == [json |-> TRUE, sub |-> sub, user_id |-> uid]

\* the header parsing shared by rate_limit_middleware and RateLimit.dependency
AuthOfRequest(req) ==
  IF req.bearer THEN HTTPAuthorizationCredentials(req.token) ELSE NoAuth

\* RateLimiter._extract_user_from_token
_extract_user_from_token(tok) ==
  IF tok.parts >= 2 /\ tok.payload.json
  THEN IF tok.payload.sub # Null THEN tok.payload.sub
       ELSE IF tok.payload.user_id # Null THEN tok.payload.user_id
       ELSE "None"
  ELSE Null

\* hashlib.md5(f"{client_ip}:{user_agent}").hexdigest() on the addresses and agents
\* of the model: one colon-free word for each pair
Md5Hex(ip, ua) ==
  CASE ip = "10.0.0.1" /\ ua = "curl"    -> "md5-10.0.0.1-curl"
    [] ip = "10.0.0.1" /\ ua = "unknown" -> "md5-10.0.0.1-unknown"
    [] ip = "10.0.0.2" /\ ua = "curl"    -> "md5-10.0.0.2-curl"
    [] ip = "10.0.0.2" /\ ua = "unknown" -> "md5-10.0.0.2-unknown"
    [] ip = "unknown"  /\ ua = "curl"    -> "md5-unknown-curl"
    [] OTHER                              -> "md5-unknown-unknown"

\* faulty variant: once a counter exists, everybody is identified by fingerprint
IdentifierByStore(req, auth) ==
  IF auth.present /\ _extract_user_from_token(auth.credentials) # Null
     /\ \A k \in DOMAIN store : ~IsCounterKey(k)
  THEN <<"user", _extract_user_from_token(auth.credentials)>>
  ELSE <<Md5Hex(req.ip, req.ua)>>

\* RateLimiter._get_client_identifier: the parts of the identifier between colons
_get_client_identifier(req, auth) ==
  IF auth.present /\ _extract_user_from_token(auth.credentials) # Null
  THEN <<"user", _extract_user_from_token(auth.credentials)>>
  ELSE <<Md5Hex(req.ip, req.ua)>>

\* faulty variant: the key leaves the identifier out
RateLimitKeyPerTier(identifier, endpoint_type) == <<"rate_limit", endpoint_type>>

\* RateLimiter._get_rate_limit_key: f"rate_limit:{endpoint_type}:{identifier}"
_get_rate_limit_key(identifier, endpoint_type) == <<"rate_limit", endpoint_type>> \o identifier

Contains(path, marker) == \E i \in 1..Len(path) : path[i] = marker

\* faulty variant: the export rule is tried before the auth rule
EndpointTypeExportFirst(req) ==
  IF Contains(req.path, "/extract-meter-reading") THEN "ocr"
  ELSE IF Contains(req.path, "/upload") THEN "upload"
  ELSE IF Contains(req.path, "/export") THEN "export"
  ELSE IF \E m \in {"/login", "/signup", "/refresh"} : Contains(req.path, m) THEN "auth"
  ELSE "default"

\* RateLimiter._get_endpoint_type
_get_endpoint_type(req) ==
  IF Contains(req.path, "/extract-meter-reading") THEN "ocr"
  ELSE IF Contains(req.path, "/upload") THEN "upload"
  ELSE IF \E m \in {"/login", "/signup", "/refresh"} : Contains(req.path, m) THEN "auth"
  ELSE IF Contains(req.path, "/export") THEN "export"
  ELSE "default"

RoleKey(uid) == <<"user_role", uid>>

\* faulty variant: any stored role counts as admin
IsUserAdminAnyRole(auth, s, up) ==
  IF ~auth.present THEN FALSE
  ELSE IF _extract_user_from_token(auth.credentials) = Null THEN FALSE
  ELSE IF ~up THEN FALSE
  ELSE ~RedisGet(s, RoleKey(_extract_user_from_token(auth.credentials))).nil

\* RateLimiter._is_user_admin against store s; up = the store answers
_is_user_admin(auth, s, up) ==
  IF ~auth.present THEN FALSE
  ELSE IF _extract_user_from_token(auth.credentials) = Null THEN FALSE
  ELSE IF ~up THEN FALSE
  ELSE LET user_role == RedisGet(s, RoleKey(_extract_user_from_token(auth.credentials)))
       IN  ~user_role.nil /\ user_role.v = "admin"

(***************************************************************************)
(* The decision of check_rate_limit and the record of one request.         *)
(***************************************************************************)
NoResult == [allowed |-> FALSE, limit |-> 0, remaining |-> 0, reset_time |-> 0, retry_after |-> 0]

\* lines 145-151: the limit is reached
Denied(config, t) ==
  [allowed |-> FALSE, limit |-> config.requests, remaining |-> 0,
   reset_time |-> t + config.window, retry_after |-> config.window]

\* faulty variant: remaining computed before the request is counted
AllowedOffByOne(config, current_requests, t) ==
  [allowed |-> TRUE, limit |-> config.requests,
   remaining |-> config.requests - current_requests,
   reset_time |-> t + config.window, retry_after |-> 0]

\* faulty variant: remaining reports the count instead of the quota left
AllowedCountsUp(config, current_requests, t) ==
  [allowed |-> TRUE, limit |-> config.requests,
   remaining |-> current_requests,
   reset_time |-> t + config.window, retry_after |-> 0]

\* lines 159-165: the request was counted
Allowed(config, current_requests, t) ==
  [allowed |-> TRUE, limit |-> config.requests,
   remaining |-> config.requests - current_requests - 1,
   reset_time |-> t + config.window, retry_after |-> 0]

\* faulty variant: a store error rejects the request
FailClosed(config, t) ==
  [allowed |-> FALSE, limit |-> config.requests, remaining |-> 0,
   reset_time |-> t + config.window, retry_after |-> config.window]

\* lines 167-176: the store raised
FailOpen(config, t) ==
  [allowed |-> TRUE, limit |-> config.requests, remaining |-> config.requests - 1,
   reset_time |-> t + config.window, retry_after |-> 0]

\* faulty variant: the comparison lets one more request through
LimitReachedStrict(current_requests, config) == current_requests > config.requests

\* line 144: int(current_requests) >= config['requests']
LimitReached(current_requests, config) == current_requests >= config.requests

\* faulty variant: no override for admins
EffectiveTierPathOnly(req, is_admin) == _get_endpoint_type(req)

\* lines 125-129 (186-189): the tier of the path, overridden for an admin
EffectiveTier(req, is_admin) == IF is_admin THEN "admin" ELSE _get_endpoint_type(req)

\* faulty variant: remaining without the floor at zero
StatusUnclamped(config, current_requests, ttl, t) ==
  [limit |-> config.requests,
   remaining |-> config.requests - current_requests,
   reset_time |-> IF ttl > 0 THEN t + ttl ELSE t + config.window,
   window |-> config.window]

\* lines 202-207: the status reported by get_rate_limit_status
Status(config, current_requests, ttl, t) ==
  [limit |-> config.requests,
   remaining |-> IF config.requests - current_requests > 0
                 THEN config.requests - current_requests ELSE 0,
   reset_time |-> IF ttl > 0 THEN t + ttl ELSE t + config.window,
   window |-> config.window]

\* lines 209-216: the store raised
StatusOnError(config, t) ==
  [limit |-> config.requests, remaining |-> config.requests,
   reset_time |-> t + config.window, window |-> config.window]

NoStatus == [limit |-> 0, remaining |-> 0, reset_time |-> 0, window |-> 0]

NoToken == [parts |-> 0, payload |-> [json |-> FALSE]]

NoRequest == [path |-> <<>>, bearer |-> FALSE, token |-> NoToken, ip |-> "unknown", ua |-> "unknown"]

NoHeaders == [h \in {} |-> <<>>]

NoWrite == [val |-> 0, ttl |-> 0]

NoRet == <<FALSE, 0 - 1>>

NoDetail == [message |-> "", tier |-> Null, limit |-> <<>>, window |-> <<>>]

\* line 296: the detail of the middleware's rejection, a fixed sentence
MiddlewareDetail ==
  [message |-> "Rate limit exceeded. Please try again later.", tier |-> Null,
   limit |-> <<>>, window |-> <<>>]

\* line 330: the detail of the dependency's rejection, an f-string over the
\* endpoint_type the dependency was built with, the limit of the decision and the
\* window of that endpoint_type's policy
DependencyDetail(endpoint_type, result) ==
  [message |-> "Rate limit exceeded for {tier}. {limit} requests per {window} seconds allowed.",
   tier |-> endpoint_type, limit |-> Str(result.limit),
   window |-> Str(PolicyFor(endpoint_type).window)]

\* lines 238-242: the statistics before the first key
NoStats ==
  [error |-> FALSE, total_clients |-> 0,
   endpoint_stats |-> [t \in {} |-> [clients |-> 0, total_requests |-> 0]], top_users |-> {}]

\* faulty variant: a store error is answered with empty statistics
StatsErrorAsEmpty == NoStats

\* lines 264-266: {'error': str(e)}
StatsError == [error |-> TRUE]

\* faulty variant: a tier's clients are counted only when the tier is first seen
StatsAddOnce(stats, key_parts, current_requests) ==
  IF Len(key_parts) < 3 THEN stats
  ELSE LET endpoint_type == key_parts[2]
           es == stats.endpoint_stats
           old == IF endpoint_type \in DOMAIN es THEN es[endpoint_type]
                  ELSE [clients |-> 1, total_requests |-> 0]
       IN  [stats EXCEPT !.endpoint_stats =
              [t \in DOMAIN es \cup {endpoint_type} |->
                 IF t = endpoint_type
                 THEN [clients |-> old.clients, total_requests |-> old.total_requests + current_requests]
                 ELSE es[t]]]

\* lines 245-261: one key of the loop; key_parts = key.split(':'), the tier is its
\* second part
StatsAdd(stats, key_parts, current_requests) ==
  IF Len(key_parts) < 3 THEN stats
  ELSE LET endpoint_type == key_parts[2]
           es == stats.endpoint_stats
           old == IF endpoint_type \in DOMAIN es THEN es[endpoint_type]
                  ELSE [clients |-> 0, total_requests |-> 0]
       IN  [stats EXCEPT !.endpoint_stats =
              [t \in DOMAIN es \cup {endpoint_type} |->
                 IF t = endpoint_type
                 THEN [clients |-> old.clients + 1,
                       total_requests |-> old.total_requests + current_requests]
                 ELSE es[t]]]

\* one request: its inputs, the locals of check_rate_limit, the decision and the
\* outcome.  History for the properties: touched (the keys its pipeline changed), seq
\* (its position in the window), clean (the window began with a GET that found no
\* counter), prevRem and prevStale (the latest allowed decision of the window when it
\* began), afterExhaust (the previous window ended at the limit), wrote (the counter
\* after its pipeline), stale (the counter expired between its GET and its pipeline),
\* ok (what reset_rate_limit returned), afterReset (the call is the first on its
\* counter since a reset_rate_limit removed it at the limit), stats and pending (the
\* statistics of get_rate_limit_stats so far and the keys it has still to read),
\* param (the endpoint_type the RateLimit dependency was built with), detail (the
\* detail of the HTTPException), sent (when the request was sent), afterWait (it is
\* the first request sent since the latest denial of its counter, retry_after seconds
\* or more after it), afterIdle (and no request was counted in between), ret (what
\* RateLimitCache.check_rate_limit returned), found (its GET found the key), args (the
\* arguments of a cache call), before (the keys of the call the store held when it
\* began), value (what a cache get returned)
BlankCall ==
  [entry |-> "", req |-> NoRequest, auth |-> NoAuth, identifier |-> <<>>,
   endpoint_type |-> "", key |-> <<>>, read |-> 0 - 1, kind |-> "none",
   result |-> NoResult, status |-> 0, headers |-> NoHeaders, handled |-> FALSE,
   checked |-> FALSE, ops |-> <<>>, raised |-> "", admin |-> FALSE, roleRaised |-> FALSE,
   report |-> NoStatus,
   seq |-> 0, clean |-> FALSE, prevRem |-> 0 - 1, prevStale |-> FALSE,
   afterExhaust |-> FALSE, stale |-> FALSE, wrote |-> NoWrite, touched |-> {},
   ok |-> FALSE, afterReset |-> FALSE, stats |-> NoStats, pending |-> {},
   param |-> "", detail |-> NoDetail, sent |-> 0, afterWait |-> FALSE, afterIdle |-> FALSE,
   ret |-> NoRet, found |-> FALSE, args |-> <<>>, before |-> {}, value |-> [none |-> TRUE]]

\* history of one counter key during its current lifetime (window): allowed in every
\* scenario, the rest where env.track is set (the single-client scenario); where
\* env.wait is set, across lifetimes: deniedAt (the time of the latest denial), quiet
\* (no request was sent since), counted (a request was counted since); and for a
\* session key: live (the data last stored and not deleted or expired since)
FreshHist(exhausted) ==
  [issued |-> 0, clean |-> FALSE, lastRem |-> 0 - 1, lastStale |-> FALSE, allowed |-> 0,
   prevExhausted |-> exhausted, wasReset |-> FALSE,
   deniedAt |-> 0 - 1, quiet |-> FALSE, counted |-> FALSE, live |-> [none |-> TRUE]]

H(k) == IF k \in DOMAIN hist THEN hist[k] ELSE FreshHist(FALSE)

Put(f, k, v) == [j \in DOMAIN f \cup {k} |-> IF j = k THEN v ELSE f[j]]

\* the keys whose entry differs between two states of the store
Changed(s1, s2) ==
  {k \in DOMAIN s1 \cup DOMAIN s2 :
     \/ k \notin DOMAIN s1
     \/ k \notin DOMAIN s2
     \/ s1[k] # s2[k]}

\* faulty variant: a rejection without Retry-After
RejectHeadersNoRetry(r) ==
  [h \in {"X-RateLimit-Limit", "X-RateLimit-Remaining", "X-RateLimit-Reset"} |->
     CASE h = "X-RateLimit-Limit"     -> Str(r.limit)
       [] h = "X-RateLimit-Remaining" -> Str(r.remaining)
       [] OTHER                       -> Str(r.reset_time)]

\* headers of the rejection (lines 287-292, 321-326)
RejectHeaders(r) ==
  [h \in {"X-RateLimit-Limit", "X-RateLimit-Remaining", "X-RateLimit-Reset", "Retry-After"} |->
     CASE h = "X-RateLimit-Limit"     -> Str(r.limit)
       [] h = "X-RateLimit-Remaining" -> Str(r.remaining)
       [] h = "X-RateLimit-Reset"     -> Str(r.reset_time)
       [] OTHER                       -> Str(r.retry_after)]

\* headers added to the downstream response (lines 302-304)
QuotaHeaders(r) ==
  [h \in {"X-RateLimit-Limit", "X-RateLimit-Remaining", "X-RateLimit-Reset"} |->
     CASE h = "X-RateLimit-Limit"     -> Str(r.limit)
       [] h = "X-RateLimit-Remaining" -> Str(r.remaining)
       [] OTHER                       -> Str(r.reset_time)]

\* what the caller of check_rate_limit does with the decision: a direct caller
\* keeps it; the middleware and the dependency raise HTTPException(429) when denied
Deliver(cl) ==
  IF cl.entry = "check" \/ cl.result.allowed THEN cl
  ELSE [cl EXCEPT !.status = 429, !.headers = RejectHeaders(cl.result),
                  !.detail = IF cl.entry = "middleware" THEN MiddlewareDetail
                             ELSE DependencyDetail(cl.param, cl.result)]

PcAfterCheck(cl) ==
  IF cl.entry = "check" \/ ~cl.result.allowed THEN "done" ELSE "handler"

Callers == DOMAIN pc

\* line 309: the endpoint_type a route passes to RateLimit(...); 'default' when it
\* passes none
DependencyTiers == {"default", "export"}

(***************************************************************************)
(* Actions.                                                                *)
(***************************************************************************)
\* a request enters rate_limit_middleware (272-283), the RateLimit dependency
\* (311-318), or check_rate_limit / get_rate_limit_status is called directly
Request(c) ==
  /\ pc[c] = "idle"
  /\ budget # 0
  /\ \E req \in env.reqs, entry \in env.entries :
       \E param \in IF entry = "dependency" THEN DependencyTiers ELSE {""} :
         call' = [call EXCEPT ![c] =
                    [BlankCall EXCEPT !.entry = entry, !.req = req, !.auth = AuthOfRequest(req),
                                      !.checked = (entry # "status"), !.param = param,
                                      !.sent = IF env.wait THEN now ELSE @]]
  /\ pc' = [pc EXCEPT ![c] = "resolve"]
  /\ budget' = IF budget = Unlimited THEN Unlimited ELSE budget - 1
  /\ UNCHANGED <<store, storeUp, now, hist, env, export_jobs, tasks>>

\* check_rate_limit lines 121-135 (get_rate_limit_status lines 185-192)
Resolve(c) ==
  /\ pc[c] = "resolve"
  /\ LET cl == call[c]
         identifier == _get_client_identifier(cl.req, cl.auth)
         is_admin == _is_user_admin(cl.auth, store, storeUp)
         endpoint_type == EffectiveTier(cl.req, is_admin)
         key == _get_rate_limit_key(identifier, endpoint_type)
         asked == cl.auth.present /\ _extract_user_from_token(cl.auth.credentials) # Null
         \* retry_after of the latest denial has passed when the request was sent
         waited == /\ H(key).deniedAt >= 0
                   /\ H(key).quiet
                   /\ cl.sent >= H(key).deniedAt + PolicyFor(endpoint_type).window
     IN  /\ call' = [call EXCEPT ![c] =
                       [cl EXCEPT !.identifier = identifier, !.endpoint_type = endpoint_type,
                                  !.key = key,
                                  !.prevRem = IF env.track THEN H(key).lastRem ELSE @,
                                  !.prevStale = IF env.track THEN H(key).lastStale ELSE @,
                                  !.admin = is_admin, !.roleRaised = asked /\ ~storeUp,
                                  !.ops = IF asked THEN Append(@, "GET user_role") ELSE @,
                                  !.afterWait = env.wait /\ waited,
                                  !.afterIdle = env.wait /\ waited /\ ~H(key).counted]]
         /\ pc' = [pc EXCEPT ![c] = IF cl.entry = "status" THEN "sget" ELSE "get"]
         /\ hist' = IF env.wait /\ key \in DOMAIN hist
                    THEN [hist EXCEPT ![key].quiet = FALSE]
                    ELSE hist
  /\ UNCHANGED <<store, storeUp, now, env, export_jobs, tasks, budget>>

\* faulty variant: a denial re-arms the expiry of the counter
AfterDenialExtending(s, key, window, t) == RedisExpire(s, key, window, t)

\* lines 144-151: the denial returns before the pipeline is built, the store is as
\* the GET found it
AfterDenial(s, key, window, t) == s

\* check_rate_limit lines 137-151: GET and the comparison with the limit
GetCount(c) ==
  /\ pc[c] = "get"
  /\ LET cl == call[c]
         config == PolicyFor(cl.endpoint_type)
         reply == RedisGet(store, cl.key)
         current_requests == IF reply.nil THEN 0 ELSE IntOf(reply.v)
         h == H(cl.key)
         \* the position of this call in the window; positions past the limit count as one
         position == IF h.issued > config.requests THEN h.issued ELSE h.issued + 1
         seen == IF env.track
                 THEN [cl EXCEPT !.ops = Append(@, "GET"), !.seq = position,
                                 !.clean = IF h.issued = 0 THEN reply.nil ELSE h.clean,
                                 !.afterExhaust = h.prevExhausted,
                                 !.afterReset = h.wasReset]
                 ELSE [cl EXCEPT !.ops = Append(@, "GET"), !.afterReset = h.wasReset]
     IN  IF ~storeUp
         THEN LET done == [cl EXCEPT !.ops = Append(@, "GET"), !.raised = "GET",
                                     !.kind = "failopen", !.result = FailOpen(config, now)]
              IN  /\ call' = [call EXCEPT ![c] = Deliver(done)]
                  /\ pc' = [pc EXCEPT ![c] = PcAfterCheck(done)]
                  /\ UNCHANGED <<store, hist>>
         ELSE /\ hist' = IF env.track
                         THEN Put(hist, cl.key, [h EXCEPT !.issued = position, !.clean = seen.clean])
                         ELSE IF env.wait /\ LimitReached(current_requests, config)
                         THEN Put(hist, cl.key,
                                  [h EXCEPT !.deniedAt = now, !.quiet = TRUE, !.counted = FALSE])
                         ELSE hist
              /\ IF LimitReached(current_requests, config)
                 THEN LET done == [seen EXCEPT !.kind = "denied", !.result = Denied(config, now)]
                      IN  /\ call' = [call EXCEPT ![c] = Deliver(done)]
                          /\ pc' = [pc EXCEPT ![c] = PcAfterCheck(done)]
                          /\ store' = AfterDenial(store, cl.key, config.window, now)
                 ELSE /\ call' = [call EXCEPT ![c] = [seen EXCEPT !.read = current_requests]]
                      /\ pc' = [pc EXCEPT ![c] = "incr"]
                      /\ store' = store
  /\ UNCHANGED <<storeUp, now, env, export_jobs, tasks, budget>>

\* faulty variant: the counter is incremented and no expiry is set
PipelineNoExpire(s, key, window, t) == RedisIncr(s, key)

\* faulty variant: the expiry is set to twice the window
PipelineDoubleWindow(s, key, window, t) == RedisExpire(RedisIncr(s, key), key, 2 * window, t)

\* the pipeline of lines 154-157: INCR then EXPIRE, executed as one transaction
Pipeline(s, key, window, t) == RedisExpire(RedisIncr(s, key), key, window, t)

\* check_rate_limit lines 153-165: the pipeline and the allowed decision
Increment(c) ==
  /\ pc[c] = "incr"
  /\ LET cl == call[c]
         config == PolicyFor(cl.endpoint_type)
         h == H(cl.key)
     IN  IF ~storeUp
         THEN LET done == [cl EXCEPT !.ops = Append(@, "PIPELINE"), !.raised = "PIPELINE",
                                     !.kind = "failopen", !.result = FailOpen(config, now)]
              IN  /\ call' = [call EXCEPT ![c] = Deliver(done)]
                  /\ pc' = [pc EXCEPT ![c] = PcAfterCheck(done)]
                  /\ UNCHANGED <<store, hist>>
         ELSE LET after == Pipeline(store, cl.key, config.window, now)
                  res == Allowed(config, cl.read, now)
                  done == [cl EXCEPT !.ops = Append(@, "PIPELINE"), !.kind = "allowed",
                                     !.result = res, !.touched = Changed(store, after),
                                     !.wrote = IF env.track
                                               THEN [val |-> after[cl.key].val,
                                                     ttl |-> RedisTtl(after, cl.key, now)]
                                               ELSE @]
              IN  /\ store' = after
                  /\ hist' = Put(hist, cl.key,
                               [h EXCEPT !.allowed = @ + 1, !.wasReset = FALSE,
                                         !.counted = env.wait,
                                         !.lastRem = IF env.track THEN res.remaining ELSE @,
                                         !.lastStale = IF env.track THEN cl.stale ELSE @])
                  /\ call' = [call EXCEPT ![c] = Deliver(done)]
                  /\ pc' = [pc EXCEPT ![c] = PcAfterCheck(done)]
  /\ UNCHANGED <<storeUp, now, env, export_jobs, tasks, budget>>

\* the statuses a route handler answers with
HandlerStatuses == {200, 500}

\* rate_limit_middleware lines 301-306: call_next and the headers on its response;
\* after RateLimit.dependency (334) the endpoint runs with the decision
CallNext(c) ==
  /\ pc[c] = "handler"
  /\ \E st \in HandlerStatuses :
       call' = [call EXCEPT ![c] =
                  [call[c] EXCEPT !.handled = TRUE, !.status = st,
                                  !.headers = IF call[c].entry = "middleware"
                                              THEN QuotaHeaders(call[c].result) ELSE NoHeaders]]
  /\ pc' = [pc EXCEPT ![c] = "done"]
  /\ UNCHANGED <<store, storeUp, now, hist, env, export_jobs, tasks, budget>>

\* get_rate_limit_status lines 194-197: GET
StatusGet(c) ==
  /\ pc[c] = "sget"
  /\ LET cl == call[c]
         config == PolicyFor(cl.endpoint_type)
         reply == RedisGet(store, cl.key)
     IN  IF ~storeUp
         THEN /\ call' = [call EXCEPT ![c] =
                            [cl EXCEPT !.ops = Append(@, "GET"), !.raised = "GET",
                                       !.kind = "status", !.report = StatusOnError(config, now)]]
              /\ pc' = [pc EXCEPT ![c] = "done"]
         ELSE /\ call' = [call EXCEPT ![c] =
                            [cl EXCEPT !.ops = Append(@, "GET"),
                                       !.read = IF reply.nil THEN 0 ELSE IntOf(reply.v)]]
              /\ pc' = [pc EXCEPT ![c] = "sttl"]
  /\ UNCHANGED <<store, storeUp, now, hist, env, export_jobs, tasks, budget>>

\* get_rate_limit_status lines 199-207: TTL and the report
StatusTtl(c) ==
  /\ pc[c] = "sttl"
  /\ LET cl == call[c]
         config == PolicyFor(cl.endpoint_type)
     IN  call' = [call EXCEPT ![c] =
                    IF ~storeUp
                    THEN [cl EXCEPT !.ops = Append(@, "TTL"), !.raised = "TTL",
                                    !.kind = "status", !.report = StatusOnError(config, now)]
                    ELSE [cl EXCEPT !.ops = Append(@, "TTL"), !.kind = "status",
                                    !.report = Status(config, cl.read,
                                                      RedisTtl(store, cl.key, now), now)]]
  /\ pc' = [pc EXCEPT ![c] = "done"]
  /\ UNCHANGED <<store, storeUp, now, hist, env, export_jobs, tasks, budget>>

\* main.py lines 21-27: the only add_middleware call of the application
AppMiddleware == {"CORSMiddleware"}

\* main.py lines 33, 37, 41, 102: the routes of the application
AppRoutes == {<<"/">>, <<"/health">>, <<"/extract-meter-reading">>, <<"/mock-extract">>}

\* the requests sent to the application in the model
AppRequests ==
  {[NoRequest EXCEPT !.path = <<"/health">>, !.ip = "10.0.0.1", !.ua = "curl"],
   [NoRequest EXCEPT !.path = <<"/extract-meter-reading">>, !.ip = "10.0.0.1", !.ua = "curl"],
   [NoRequest EXCEPT !.path = <<"/missing">>, !.ip = "10.0.0.1", !.ua = "curl"]}

\* a request dispatched by the FastAPI app of main.py: through the installed
\* middleware, then to the route handler (404 when no route matches)
AppRequest(c) ==
  /\ pc[c] = "idle"
  /\ budget # 0
  /\ \E req \in AppRequests :
       LET limited == "rate_limit_middleware" \in AppMiddleware
           cl == [BlankCall EXCEPT !.entry = IF limited THEN "middleware" ELSE "app",
                                   !.req = req, !.auth = AuthOfRequest(req),
                                   !.checked = limited]
       IN  IF limited
           THEN /\ call' = [call EXCEPT ![c] = cl]
                /\ pc' = [pc EXCEPT ![c] = "resolve"]
           ELSE IF req.path \in AppRoutes
           THEN /\ call' = [call EXCEPT ![c] = cl]
                /\ pc' = [pc EXCEPT ![c] = "handler"]
           ELSE /\ call' = [call EXCEPT ![c] = [cl EXCEPT !.status = 404]]
                /\ pc' = [pc EXCEPT ![c] = "done"]
  /\ budget' = IF budget = Unlimited THEN Unlimited ELSE budget - 1
  /\ UNCHANGED <<store, storeUp, now, hist, env, export_jobs, tasks>>

\* the (identifier, endpoint_type) pairs an operator passes to reset_rate_limit: the
\* identifiers of the clients, under their tiers
ResetTargets ==
  {<<_get_client_identifier(r, AuthOfRequest(r)), _get_endpoint_type(q)>> : r \in env.reqs, q \in env.reqs}

\* reset_rate_limit lines 218-230: DEL of the key, True; False when the store raised
reset_rate_limit(c) ==
  /\ pc[c] = "idle"
  /\ budget # 0
  /\ \E target \in ResetTargets :
       LET identifier == target[1]
           endpoint_type == target[2]
           key == _get_rate_limit_key(identifier, endpoint_type)
           cl == [BlankCall EXCEPT !.entry = "reset", !.identifier = identifier,
                                   !.endpoint_type = endpoint_type, !.key = key,
                                   !.ops = <<"DEL">>, !.kind = "reset"]
           after == RedisDelete(store, key)
       IN  IF ~storeUp
           THEN /\ call' = [call EXCEPT ![c] = [cl EXCEPT !.raised = "DEL", !.ok = FALSE]]
                /\ UNCHANGED <<store, hist>>
           ELSE /\ call' = [call EXCEPT ![c] =
                              [cl EXCEPT !.ok = TRUE, !.touched = Changed(store, after),
                                         !.read = IF key \in DOMAIN store THEN store[key].val ELSE @]]
                /\ store' = after
                /\ hist' = IF key \in DOMAIN store
                           THEN Put(hist, key,
                                    [FreshHist(FALSE) EXCEPT
                                       !.wasReset = LimitReached(store[key].val, PolicyFor(endpoint_type))])
                           ELSE hist
  /\ pc' = [pc EXCEPT ![c] = "done"]
  /\ budget' = IF budget = Unlimited THEN Unlimited ELSE budget - 1
  /\ UNCHANGED <<storeUp, now, env, export_jobs, tasks>>

\* get_rate_limit_stats lines 234-242: KEYS rate_limit:*
StatsKeys(c) ==
  /\ pc[c] = "idle"
  /\ budget # 0
  /\ LET cl == [BlankCall EXCEPT !.entry = "stats", !.ops = <<"KEYS">>]
     IN  IF ~storeUp
         THEN /\ call' = [call EXCEPT ![c] =
                            [cl EXCEPT !.raised = "KEYS", !.kind = "stats", !.stats = StatsError]]
              /\ pc' = [pc EXCEPT ![c] = "done"]
         ELSE IF RedisKeys(store) = {}
         THEN /\ call' = [call EXCEPT ![c] = [cl EXCEPT !.kind = "stats"]]
              /\ pc' = [pc EXCEPT ![c] = "done"]
         ELSE /\ call' = [call EXCEPT ![c] = [cl EXCEPT !.pending = RedisKeys(store)]]
              /\ pc' = [pc EXCEPT ![c] = "sread"]
  /\ budget' = IF budget = Unlimited THEN Unlimited ELSE budget - 1
  /\ UNCHANGED <<store, storeUp, now, hist, env, export_jobs, tasks>>

\* get_rate_limit_stats lines 244-266: GET of the next key of the loop, in whatever
\* order KEYS listed them
StatsRead(c) ==
  /\ pc[c] = "sread"
  /\ \E key \in call[c].pending :
       LET cl == call[c]
           reply == RedisGet(store, key)
           current_requests == IF reply.nil THEN 0 ELSE IntOf(reply.v)
           rest == cl.pending \ {key}
       IN  IF ~storeUp
           THEN /\ call' = [call EXCEPT ![c] =
                              [cl EXCEPT !.ops = Append(@, "GET"), !.raised = "GET",
                                         !.kind = "stats", !.stats = StatsError, !.pending = {}]]
                /\ pc' = [pc EXCEPT ![c] = "done"]
           ELSE /\ call' = [call EXCEPT ![c] =
                              [cl EXCEPT !.ops = Append(@, "GET"),
                                         !.stats = StatsAdd(@, key, current_requests),
                                         !.pending = rest,
                                         !.kind = IF rest = {} THEN "stats" ELSE @]]
                /\ pc' = [pc EXCEPT ![c] = IF rest = {} THEN "done" ELSE "sread"]
  /\ UNCHANGED <<store, storeUp, now, hist, env, export_jobs, tasks, budget>>

\* the arguments of RateLimitCache.check_rate_limit in the model
CacheArgs == [identifier |-> "test_user", limit |-> 3, window |-> 60]

\* faulty variant: remaining computed before the request is counted
CacheRemainingOffByOne(limit, current_count) == limit - current_count

\* cache.py line 248: remaining = limit - current_count - 1
CacheRemaining(limit, current_count) == limit - current_count - 1

\* RateLimitCache.check_rate_limit is called (cache.py lines 230-232)
CacheCheck(c) ==
  /\ pc[c] = "idle"
  /\ budget # 0
  /\ call' = [call EXCEPT ![c] =
                [BlankCall EXCEPT !.entry = "cache", !.identifier = <<CacheArgs.identifier>>,
                                  !.key = _make_key("rate_limit", CacheArgs.identifier)]]
  /\ pc' = [pc EXCEPT ![c] = "cget"]
  /\ budget' = IF budget = Unlimited THEN Unlimited ELSE budget - 1
  /\ UNCHANGED <<store, storeUp, now, hist, env, export_jobs, tasks>>

\* cache.py lines 234-244 (251-254): GET, then the branch on its reply
CacheGet(c) ==
  /\ pc[c] = "cget"
  /\ LET cl == call[c]
         current == RedisGet(store, cl.key)
         current_count == IF current.nil THEN 0 ELSE IntOf(current.v)
         seen == [cl EXCEPT !.ops = Append(@, "GET")]
     IN  IF ~storeUp
         THEN /\ call' = [call EXCEPT ![c] =
                            [seen EXCEPT !.raised = "GET", !.kind = "failopen",
                                         !.ret = <<TRUE, CacheArgs.limit>>]]
              /\ pc' = [pc EXCEPT ![c] = "done"]
         ELSE IF current.nil
         THEN /\ call' = [call EXCEPT ![c] = seen]
              /\ pc' = [pc EXCEPT ![c] = "csetex"]
         ELSE IF current_count >= CacheArgs.limit
         THEN /\ call' = [call EXCEPT ![c] =
                            [seen EXCEPT !.found = TRUE, !.read = current_count,
                                         !.kind = "denied", !.ret = <<FALSE, 0>>]]
              /\ pc' = [pc EXCEPT ![c] = "done"]
         ELSE /\ call' = [call EXCEPT ![c] = [seen EXCEPT !.found = TRUE, !.read = current_count]]
              /\ pc' = [pc EXCEPT ![c] = "cincr"]
  /\ UNCHANGED <<store, storeUp, now, hist, env, export_jobs, tasks, budget>>

\* cache.py lines 236-239 (251-254): SETEX key window 1
CacheSetex(c) ==
  /\ pc[c] = "csetex"
  /\ LET cl == call[c]
         after == RedisSetex(store, cl.key, CacheArgs.window, 1, now)
     IN  IF ~storeUp
         THEN /\ call' = [call EXCEPT ![c] =
                            [cl EXCEPT !.ops = Append(@, "SETEX"), !.raised = "SETEX",
                                       !.kind = "failopen", !.ret = <<TRUE, CacheArgs.limit>>]]
              /\ UNCHANGED <<store, hist>>
         ELSE /\ call' = [call EXCEPT ![c] =
                            [cl EXCEPT !.ops = Append(@, "SETEX"), !.kind = "allowed",
                                       !.ret = <<TRUE, CacheArgs.limit - 1>>,
                                       !.touched = Changed(store, after)]]
              /\ store' = after
              /\ hist' = Put(hist, cl.key, [H(cl.key) EXCEPT !.allowed = @ + 1])
  /\ pc' = [pc EXCEPT ![c] = "done"]
  /\ UNCHANGED <<storeUp, now, env, export_jobs, tasks, budget>>

\* cache.py lines 246-249 (251-254): INCR key
CacheIncr(c) ==
  /\ pc[c] = "cincr"
  /\ LET cl == call[c]
         after == RedisIncr(store, cl.key)
     IN  IF ~storeUp
         THEN /\ call' = [call EXCEPT ![c] =
                            [cl EXCEPT !.ops = Append(@, "INCR"), !.raised = "INCR",
                                       !.kind = "failopen", !.ret = <<TRUE, CacheArgs.limit>>]]
              /\ UNCHANGED <<store, hist>>
         ELSE /\ call' = [call EXCEPT ![c] =
                            [cl EXCEPT !.ops = Append(@, "INCR"), !.kind = "allowed",
                                       !.ret = <<TRUE, CacheRemaining(CacheArgs.limit, cl.read)>>,
                                       !.touched = Changed(store, after)]]
              /\ store' = after
              /\ hist' = Put(hist, cl.key, [H(cl.key) EXCEPT !.allowed = @ + 1])
  /\ pc' = [pc EXCEPT ![c] = "done"]
  /\ UNCHANGED <<storeUp, now, env, export_jobs, tasks, budget>>

\* None where a cached dict is expected
None == [none |-> TRUE]

\* json.dumps(value, default=str) and json.loads(value) on the stored text
JsonDumps(value) == <<"json", value>>
JsonLoads(text) == text[2]

\* CacheManager.default_ttl and settings.CACHE_TTL_USER
default_ttl == 3600
CACHE_TTL_USER == 3600

\* CacheManager.set (cache.py lines 61-78): SETEX of the serialized value; ttl 0 or
\* None means default_ttl; False when the store raised
CacheManagerSet(s, up, prefix, identifier, value, ttl, t) ==
  IF ~up THEN [store |-> s, ret |-> FALSE]
  ELSE [store |-> RedisSetex(s, _make_key(prefix, identifier),
                             IF ttl = 0 THEN default_ttl ELSE ttl,
                             JsonDumps(value), t),
        ret |-> TRUE]

\* CacheManager.get (cache.py lines 39-59): the deserialized value, None for a
\* missing key and when the store raised
CacheManagerGet(s, up, prefix, identifier) ==
  LET value == RedisGet(s, _make_key(prefix, identifier))
  IN  IF ~up \/ value.nil THEN None ELSE JsonLoads(value.v)

\* CacheManager.delete (cache.py lines 80-89): bool(DEL key); False when the store raised
CacheManagerDelete(s, up, prefix, identifier) ==
  IF ~up THEN [store |-> s, ret |-> FALSE]
  ELSE [store |-> RedisDelete(s, _make_key(prefix, identifier)),
        ret |-> _make_key(prefix, identifier) \in DOMAIN s]

\* CacheManager.expire (cache.py lines 124-132): bool(EXPIRE key ttl); False when the
\* store raised
CacheManagerExpire(s, up, prefix, identifier, ttl, t) ==
  IF ~up THEN [store |-> s, ret |-> FALSE]
  ELSE [store |-> RedisExpire(s, _make_key(prefix, identifier), ttl, t),
        ret |-> _make_key(prefix, identifier) \in DOMAIN s]

\* the users, e-mail addresses and user records of the model
UserIds == {"42"}
Emails == {"a@example.org"}
UserData == {[name |-> "ann"], [name |-> "bob"]}

\* a cache call that is one store round trip: it starts and returns in one step
CacheCall(c, entry, args, r, value) ==
  /\ pc[c] = "idle"
  /\ budget # 0
  /\ call' = [call EXCEPT ![c] =
                [BlankCall EXCEPT !.entry = entry, !.args = args,
                                  !.before = DOMAIN store, !.ok = r.ret, !.value = value,
                                  !.raised = IF storeUp THEN "" ELSE entry,
                                  !.touched = Changed(store, r.store)]]
  /\ store' = r.store
  /\ pc' = [pc EXCEPT ![c] = "done"]
  /\ budget' = IF budget = Unlimited THEN Unlimited ELSE budget - 1
  /\ UNCHANGED <<storeUp, now, env, export_jobs, tasks>>

\* UserCache.set_user (cache.py lines 142-144)
set_user(c) ==
  \E user_id \in UserIds, user_data \in UserData :
    /\ CacheCall(c, "set_user", [user_id |-> user_id, user_data |-> user_data],
                 CacheManagerSet(store, storeUp, "user", user_id, user_data, CACHE_TTL_USER, now),
                 None)
    /\ UNCHANGED hist

\* UserCache.set_user_by_email (cache.py lines 150-152)
set_user_by_email(c) ==
  \E email \in Emails, user_data \in UserData :
    /\ CacheCall(c, "set_user_by_email", [email |-> email, user_data |-> user_data],
                 CacheManagerSet(store, storeUp, "user_email", email, user_data, CACHE_TTL_USER, now),
                 None)
    /\ UNCHANGED hist

\* UserCache.invalidate_user is called (cache.py line 154)
invalidate_user(c) ==
  /\ pc[c] = "idle"
  /\ budget # 0
  /\ \E user_id \in UserIds, email \in Emails \cup {Null} :
       call' = [call EXCEPT ![c] =
                  [BlankCall EXCEPT !.entry = "invalidate_user",
                                    !.args = [user_id |-> user_id, email |-> email],
                                    !.before = DOMAIN store]]
  /\ pc' = [pc EXCEPT ![c] = "inv1"]
  /\ budget' = IF budget = Unlimited THEN Unlimited ELSE budget - 1
  /\ UNCHANGED <<store, storeUp, now, hist, env, export_jobs, tasks>>

\* cache.py lines 156-159: the first delete; the second one is awaited only when an
\* e-mail was given and the first returned True
InvalidateUserEntry(c) ==
  /\ pc[c] = "inv1"
  /\ LET cl == call[c]
         r == CacheManagerDelete(store, storeUp, "user", cl.args.user_id)
         success == r.ret
         seen == [cl EXCEPT !.ops = Append(@, "DEL"), !.ok = success,
                            !.raised = IF storeUp THEN @ ELSE "DEL",
                            !.touched = @ \cup Changed(store, r.store)]
     IN  /\ store' = r.store
         /\ call' = [call EXCEPT ![c] = seen]
         /\ pc' = [pc EXCEPT ![c] = IF cl.args.email # Null /\ success THEN "inv2" ELSE "done"]
  /\ UNCHANGED <<storeUp, now, hist, env, export_jobs, tasks, budget>>

\* cache.py lines 157-159: the delete of the e-mail entry and the return
InvalidateEmailEntry(c) ==
  /\ pc[c] = "inv2"
  /\ LET cl == call[c]
         r == CacheManagerDelete(store, storeUp, "user_email", cl.args.email)
     IN  /\ store' = r.store
         /\ call' = [call EXCEPT ![c] =
                       [cl EXCEPT !.ops = Append(@, "DEL"), !.ok = r.ret,
                                  !.raised = IF storeUp THEN @ ELSE "DEL",
                                  !.touched = @ \cup Changed(store, r.store)]]
         /\ pc' = [pc EXCEPT ![c] = "done"]
  /\ UNCHANGED <<storeUp, now, hist, env, export_jobs, tasks, budget>>

\* the session lifetimes of the model (the session id is "s1"); 86400 is the
\* default of the ttl parameter
SessionTtls == {60, 86400}

\* SessionCache.create_session (cache.py lines 275-277)
create_session(c) ==
  \E session_id \in {"s1"}, user_data \in UserData, ttl \in SessionTtls :
    LET r == CacheManagerSet(store, storeUp, "session", session_id, user_data, ttl, now)
        key == _make_key("session", session_id)
    IN  /\ CacheCall(c, "create_session",
                     [session_id |-> session_id, user_data |-> user_data, ttl |-> ttl], r, None)
        /\ hist' = IF r.ret THEN Put(hist, key, [H(key) EXCEPT !.live = user_data]) ELSE hist

\* SessionCache.update_session (cache.py lines 283-285)
update_session(c) ==
  \E session_id \in {"s1"}, user_data \in UserData, ttl \in SessionTtls :
    LET r == CacheManagerSet(store, storeUp, "session", session_id, user_data, ttl, now)
        key == _make_key("session", session_id)
    IN  /\ CacheCall(c, "update_session",
                     [session_id |-> session_id, user_data |-> user_data, ttl |-> ttl], r, None)
        /\ hist' = IF r.ret THEN Put(hist, key, [H(key) EXCEPT !.live = user_data]) ELSE hist

\* SessionCache.get_session (cache.py lines 279-281)
get_session(c) ==
  \E session_id \in {"s1"} :
    /\ CacheCall(c, "get_session", [session_id |-> session_id],
                 [store |-> store, ret |-> TRUE],
                 CacheManagerGet(store, storeUp, "session", session_id))
    /\ UNCHANGED hist

\* SessionCache.delete_session (cache.py lines 287-289)
delete_session(c) ==
  \E session_id \in {"s1"} :
    LET r == CacheManagerDelete(store, storeUp, "session", session_id)
        key == _make_key("session", session_id)
    IN  /\ CacheCall(c, "delete_session", [session_id |-> session_id], r, None)
        /\ hist' = IF r.ret THEN Put(hist, key, [H(key) EXCEPT !.live = None]) ELSE hist

\* SessionCache.refresh_session (cache.py lines 291-293)
refresh_session(c) ==
  \E session_id \in {"s1"}, ttl \in SessionTtls :
    /\ CacheCall(c, "refresh_session", [session_id |-> session_id, ttl |-> ttl],
                 CacheManagerExpire(store, storeUp, "session", session_id, ttl, now), None)
    /\ UNCHANGED hist

\* the role cache entry user_role:<uid> read at line 93 is written by a collaborator:
\* the role of a user is granted or withdrawn
RoleChange(uid) ==
  /\ storeUp
  /\ store' = IF RoleKey(uid) \in DOMAIN store
              THEN [k \in DOMAIN store \ {RoleKey(uid)} |-> store[k]]
              ELSE Put(store, RoleKey(uid), [val |-> "admin", exp |-> NoExpiry])
  /\ UNCHANGED <<storeUp, now, pc, call, hist, env, export_jobs, tasks, budget>>

\* the caller takes the decision or the response; the record of the request ends
Return(c) ==
  /\ pc[c] = "done"
  /\ pc' = [pc EXCEPT ![c] = "idle"]
  /\ call' = [call EXCEPT ![c] = BlankCall]
  /\ UNCHANGED <<store, storeUp, now, hist, env, export_jobs, tasks, budget>>

\* the clock advances, once the finished requests have been taken; the store drops
\* the keys whose expiry has passed
Tick ==
  /\ \A c \in Callers : pc[c] # "done"
  /\ \E d \in env.ticks :
       /\ now + d <= MaxTime
       /\ now' = now + d
       /\ store' = Unexpired(store, now + d)
       /\ LET gone == DOMAIN store \ DOMAIN Unexpired(store, now + d)
          IN  /\ hist' = [k \in DOMAIN hist |->
                            IF k \in gone
                            THEN [FreshHist(IsCounterKey(k) /\ store[k].val >= PolicyFor(k[2]).requests) EXCEPT
                                    !.deniedAt = hist[k].deniedAt, !.quiet = hist[k].quiet,
                                    !.counted = hist[k].counted]
                            ELSE hist[k]]
              /\ call' = [c \in Callers |->
                            IF pc[c] = "get" /\ call[c].key \in gone
                            THEN [call[c] EXCEPT !.prevRem = 0 - 1, !.prevStale = FALSE]
                            ELSE IF pc[c] = "incr" /\ call[c].key \in gone /\ env.track
                            THEN [call[c] EXCEPT !.stale = TRUE]
                            ELSE IF pc[c] = "sread" /\ gone # {}
                            THEN [call[c] EXCEPT !.stale = TRUE]
                            ELSE IF pc[c] = "cincr" /\ call[c].key \in gone
                            THEN [call[c] EXCEPT !.stale = TRUE]
                            ELSE call[c]]
  /\ UNCHANGED <<storeUp, pc, env, export_jobs, tasks, budget>>

\* the store becomes unreachable / reachable again
StoreFail ==
  /\ storeUp
  /\ storeUp' = FALSE
  /\ UNCHANGED <<store, now, pc, call, hist, env, export_jobs, tasks, budget>>

StoreRecover ==
  /\ ~storeUp
  /\ storeUp' = TRUE
  /\ UNCHANGED <<store, now, pc, call, hist, env, export_jobs, tasks, budget>>

(***************************************************************************)
(* Export jobs (api/export.py): export_jobs maps an export id to its job,   *)
(* tasks holds the position of each background task and what it wrote.      *)
(***************************************************************************)
\* export_jobs = {} (export.py line 31)
NoJobs == [i \in {} |-> 0]

\* None in the fields download_url, completed_at and file_size, and a missing
\* 'format' key
NoUrl == <<>>
NoTime == 0 - 1
NoSize == 0 - 1
NoFormat == ""

Formats == {"csv", "excel", "pdf"}

\* the job created by export_csv / export_excel / export_pdf (lines 43-51)
NewJob(export_id, t) ==
  [export_id |-> export_id, status |-> "pending", progress |-> 0, download_url |-> NoUrl,
   created_at |-> t, completed_at |-> NoTime, file_size |-> NoSize, format |-> NoFormat]

\* the size written at lines 250, 278 and 306
FileSize(format) ==
  CASE format = "csv" -> 244
    [] format = "excel" -> 3072000
    [] format = "pdf" -> 5242880

\* the response of a request: status code, detail of an HTTPException, body
Response(code, detail, body) == [status_code |-> code, detail |-> detail, body |-> body]

\* a request of the export API that is served in one step
ExportCall(c, entry, args, response) ==
  /\ pc[c] = "idle"
  /\ budget # 0
  /\ call' = [call EXCEPT ![c] =
                [BlankCall EXCEPT !.entry = entry, !.args = args, !.value = response,
                                  !.before = DOMAIN export_jobs]]
  /\ pc' = [pc EXCEPT ![c] = "done"]
  /\ budget' = IF budget = Unlimited THEN Unlimited ELSE budget - 1
  /\ UNCHANGED <<store, storeUp, now, hist, env>>

\* export_csv, export_excel, export_pdf (lines 33-65, 67-99, 101-133): a fresh id
\* (uuid4), the pending job, and the background task
export_create(c) ==
  \E format \in Formats :
    LET export_id == Cardinality(DOMAIN export_jobs) + 1
        export_job == NewJob(export_id, now)
    IN  /\ export_id <= MaxJobs
        /\ ExportCall(c, "export_" \o format, [format |-> format], Response(200, "", export_job))
        /\ export_jobs' = Put(export_jobs, export_id, export_job)
        /\ tasks' = Put(tasks, export_id,
                        [format |-> format, at |-> "queued", raised |-> FALSE,
                         statuses |-> <<"pending">>, progress |-> <<0>>])

\* get_export_status (lines 135-149)
get_export_status(c) ==
  \E export_id \in 1..MaxJobs :
    /\ ExportCall(c, "get_export_status", [export_id |-> export_id],
                  IF export_id \notin DOMAIN export_jobs
                  THEN Response(404, "Export job not found", None)
                  ELSE Response(200, "", export_jobs[export_id]))
    /\ UNCHANGED <<export_jobs, tasks>>

\* faulty variant: a download that does not look at the status
DownloadAnyStatus(jobs, export_id, t) ==
  IF export_id \notin DOMAIN jobs THEN Response(404, "Export job not found", None)
  ELSE Response(200, "", [download_url |-> jobs[export_id].download_url,
                           file_name |-> <<"accuread_export_", export_id, ".", "csv">>,
                           file_size |-> jobs[export_id].file_size, expires_at |-> t + 3600])

\* download_export (lines 151-184)
DownloadResponse(jobs, export_id, t) ==
  IF export_id \notin DOMAIN jobs THEN Response(404, "Export job not found", None)
  ELSE LET export_job == jobs[export_id]
       IN  IF export_job.status # "completed"
           THEN Response(400, "Export not completed yet", None)
           ELSE IF export_job.download_url = NoUrl
           THEN Response(404, "Download URL not available", None)
           ELSE Response(200, "",
                         [download_url |-> export_job.download_url,
                          file_name |-> <<"accuread_export_", export_id, ".",
                                          IF export_job.format = NoFormat THEN "csv"
                                          ELSE export_job.format>>,
                          file_size |-> export_job.file_size,
                          expires_at |-> t + 3600])

download_export(c) ==
  \E export_id \in 1..MaxJobs :
    /\ ExportCall(c, "download_export", [export_id |-> export_id],
                  DownloadResponse(export_jobs, export_id, now))
    /\ UNCHANGED <<export_jobs, tasks>>

\* what a task wrote to its job, in order
Wrote(task, statuses, progress) ==
  [task EXCEPT !.statuses = @ \o statuses, !.progress = @ \o progress]

\* lines 223-224 (260-261, 288-289): the task starts, up to its first await
TaskStart(export_id) ==
  /\ export_id \in DOMAIN tasks
  /\ tasks[export_id].at = "queued"
  /\ export_jobs' = [export_jobs EXCEPT ![export_id].status = "processing",
                                         ![export_id].progress = 10]
  /\ tasks' = [tasks EXCEPT ![export_id] =
                 [Wrote(@, <<"processing">>, <<10>>) EXCEPT !.at = "sleep1"]]
  /\ UNCHANGED <<store, storeUp, now, pc, call, hist, env, budget>>

\* lines 228-229 (264-265, 292-293): after the first sleep, up to the second
TaskHalf(export_id) ==
  /\ export_id \in DOMAIN tasks
  /\ tasks[export_id].at = "sleep1"
  /\ export_jobs' = [export_jobs EXCEPT ![export_id].progress = 50]
  /\ tasks' = [tasks EXCEPT ![export_id] = [Wrote(@, <<>>, <<50>>) EXCEPT !.at = "sleep2"]]
  /\ UNCHANGED <<store, storeUp, now, pc, call, hist, env, budget>>

\* lines 246-251 (274-279, 302-307): the job is completed
TaskCompleted(job, format, t) ==
  [job EXCEPT !.status = "completed", !.progress = 100,
              !.download_url = <<"/api/v1/export/download/", job.export_id>>,
              !.completed_at = t, !.file_size = FileSize(format), !.format = format]

\* faulty variant: the handler of an exception that only resets the progress
TaskFailedKeepsStatus(job) == [job EXCEPT !.progress = 0]

\* faulty variant: the handler of an exception that puts the job back in the queue
TaskFailedToPending(job) == [job EXCEPT !.status = "pending", !.progress = 0]

\* lines 253-255 (281-283, 309-311): except Exception
TaskFailed(job) == [job EXCEPT !.status = "failed", !.progress = 0]

\* lines 231-255 (267-283, 295-311): after the second sleep, to the end of the task:
\* progress 90, the file is written or open/write raises (only process_csv_export
\* opens a file, lines 241-243), and the job is completed or the exception handler
\* marks it failed
TaskFinish(export_id) ==
  /\ export_id \in DOMAIN tasks
  /\ tasks[export_id].at = "sleep2"
  /\ \E raises \in {FALSE} \cup {tasks[export_id].format = "csv"} :
       LET job == [export_jobs[export_id] EXCEPT !.progress = 90]
           after == IF raises THEN TaskFailed(job)
                    ELSE TaskCompleted(job, tasks[export_id].format, now)
       IN  /\ export_jobs' = [export_jobs EXCEPT ![export_id] = after]
           /\ tasks' = [tasks EXCEPT ![export_id] =
                          [Wrote(@, IF after.status # job.status THEN <<after.status>> ELSE <<>>,
                                 <<90, after.progress>>)
                             EXCEPT !.at = "ended", !.raised = raises]]
  /\ UNCHANGED <<store, storeUp, now, pc, call, hist, env, budget>>

(***************************************************************************)
(* Scenarios.                                                              *)
(***************************************************************************)
TokenOf(sub) == [parts |-> 3, payload |-> Claims(sub, Null)]

Req(path, sub) ==
  [path |-> path, bearer |-> sub # Null,
   token |-> IF sub # Null THEN TokenOf(sub) ELSE NoToken, ip |-> "10.0.0.1", ua |-> "curl"]

\* user 7 holds the admin role, user 42 no role
RoleStore == [k \in {RoleKey("7")} |-> [val |-> "admin", exp |-> NoExpiry]]

\* one request per tier
TierRequests ==
  {Req(<<"/api", "/readings">>, "42"), Req(<<"/api", "/extract-meter-reading">>, "42"),
   Req(<<"/api", "/upload">>, "42"), Req(<<"/api", "/auth", "/login">>, "42"),
   Req(<<"/api", "/export", "/csv">>, "42"), Req(<<"/api", "/export", "/csv">>, "7")}

InitWith(cs, reqs, entries, b, ticks, track) ==
  /\ store = RoleStore
  /\ storeUp = TRUE
  /\ now = 0
  /\ pc = [c \in cs |-> "idle"]
  /\ call = [c \in cs |-> BlankCall]
  /\ hist = [k \in {} |-> FreshHist(FALSE)]
  /\ env = [reqs |-> reqs, entries |-> entries, ticks |-> ticks, track |-> track,
            wait |-> FALSE]
  /\ budget = b
  /\ export_jobs = NoJobs
  /\ tasks = NoJobs

\* one client repeating one request, one call at a time, against a healthy store
InitSeq == \E r \in TierRequests : InitWith({1}, {r}, {"check"}, Unlimited, SeqTicks, TRUE)

NextSeq ==
  \/ \E c \in Callers : Request(c)
  \/ \E c \in Callers : Resolve(c)
  \/ \E c \in Callers : GetCount(c)
  \/ \E c \in Callers : Increment(c)
  \/ \E c \in Callers : Return(c)
  \/ Tick

SpecSeq == InitSeq /\ [][NextSeq]_vars

\* the requests of the race scenario: tiers with a small limit
RaceRequests == {Req(<<"/api", "/export", "/csv">>, "42"), Req(<<"/api", "/auth", "/login">>, Null)}

\* RaceCallers clients issuing the same request concurrently against a healthy store
InitRace == \E r \in RaceRequests : InitWith(1..RaceCallers, {r}, {"check"}, Unlimited, RaceTicks, FALSE)

SpecRace == InitRace /\ [][NextSeq]_vars

\* the requests of the general scenario
MixedRequests ==
  {Req(<<"/api", "/export", "/csv">>, "42"), Req(<<"/api", "/export", "/csv">>, "7"),
   Req(<<"/api", "/auth", "/login">>, Null)}

\* every way into the limiter
Entries == {"check", "middleware", "dependency", "status"}

\* one client at a time, every entry point, a store that may fail, roles that change
Init == InitWith({1}, MixedRequests, Entries, MaxCalls, MixedTicks, FALSE)

Next ==
  \/ \E c \in Callers : Request(c)
  \/ \E c \in Callers : AppRequest(c)
  \/ \E c \in Callers : Resolve(c)
  \/ \E c \in Callers : GetCount(c)
  \/ \E c \in Callers : Increment(c)
  \/ \E c \in Callers : StatusGet(c)
  \/ \E c \in Callers : StatusTtl(c)
  \/ \E c \in Callers : CallNext(c)
  \/ \E c \in Callers : Return(c)
  \/ RoleChange("7")
  \/ StoreFail
  \/ StoreRecover
  \/ Tick

Spec == Init /\ [][Next]_vars

\* the credentials of the resolution scenario: none; a token without a dot; a payload
\* that is not base64 JSON; a JSON object with neither claim; sub only (no role, the
\* admin, a viewer); user_id only; both claims
ResolveTokens ==
  {[parts |-> 1, payload |-> [json |-> FALSE]],
   [parts |-> 3, payload |-> [json |-> FALSE]],
   [parts |-> 3, payload |-> Claims(Null, Null)],
   TokenOf("42"), TokenOf("7"), TokenOf("9"),
   [parts |-> 3, payload |-> Claims(Null, "42")],
   [parts |-> 2, payload |-> Claims("9", "7")]}

\* the pieces a path of the resolution scenario is made of: every marker of the
\* classifier and one piece that holds none
PathChunks ==
  {"/api", "/extract-meter-reading", "/upload", "/login", "/signup", "/refresh", "/export"}

\* every path of one or two pieces, without credential; one path with every
\* credential and with no credential from several clients
ResolveRequests ==
  {[NoRequest EXCEPT !.path = <<a>>, !.ip = "10.0.0.1", !.ua = "curl"] : a \in PathChunks}
  \cup {[NoRequest EXCEPT !.path = <<a, b>>, !.ip = "10.0.0.1", !.ua = "curl"] :
          a \in PathChunks, b \in PathChunks}
  \cup {[path |-> <<"/api", "/export">>, bearer |-> TRUE, token |-> tok, ip |-> "10.0.0.1",
          ua |-> "curl"] : tok \in ResolveTokens}
  \cup {[NoRequest EXCEPT !.path = <<"/api", "/export">>, !.ip = ip, !.ua = ua] :
          ip \in {"10.0.0.1", "10.0.0.2", "unknown"}, ua \in {"curl", "unknown"}}

\* two clients at different addresses presenting the same token; two clients with
\* different identities on one path; one client on paths of two tiers
ResolvePairs ==
  {{[path |-> <<"/api", "/export">>, bearer |-> TRUE, token |-> TokenOf("42"), ip |-> ip,
     ua |-> "curl"] : ip \in {"10.0.0.1", "10.0.0.2"}},
   {Req(<<"/api", "/export">>, "42"), Req(<<"/api", "/export">>, Null)},
   {Req(<<"/api", "/export">>, "42"), Req(<<"/api", "/upload">>, "42")}}

\* user 7 holds the admin role, user 9 another role, user 42 none
ResolveRoles ==
  [k \in {RoleKey("7"), RoleKey("9")} |->
     [val |-> IF k = RoleKey("7") THEN "admin" ELSE "viewer", exp |-> NoExpiry]]

\* ResolveCallers clients send the same request (or the requests of one pair),
\* ResolveCalls times in all, while the store fails and recovers
InitResolve ==
  /\ \E rs \in {{r} : r \in ResolveRequests} \cup ResolvePairs :
       env = [reqs |-> rs, entries |-> {"check"}, ticks |-> {}, track |-> FALSE,
              wait |-> FALSE]
  /\ store = ResolveRoles
  /\ storeUp = TRUE
  /\ now = 0
  /\ pc = [c \in 1..ResolveCallers |-> "idle"]
  /\ call = [c \in 1..ResolveCallers |-> BlankCall]
  /\ hist = [k \in {} |-> FreshHist(FALSE)]
  /\ budget = ResolveCalls
  /\ export_jobs = NoJobs
  /\ tasks = NoJobs

NextResolve ==
  \/ \E c \in Callers : Request(c)
  \/ \E c \in Callers : Resolve(c)
  \/ \E c \in Callers : GetCount(c)
  \/ \E c \in Callers : Increment(c)
  \/ \E c \in Callers : Return(c)
  \/ StoreFail
  \/ StoreRecover

SpecResolve == InitResolve /\ [][NextResolve]_vars

\* StallCallers clients of one identity send the export request, StallCalls times in
\* all, while the clock advances by 150 s, also between the GET and the pipeline
\* of a request
InitStall ==
  /\ store = RoleStore
  /\ storeUp = TRUE
  /\ now = 0
  /\ pc = [c \in 1..StallCallers |-> "idle"]
  /\ call = [c \in 1..StallCallers |-> BlankCall]
  /\ hist = [k \in {} |-> FreshHist(FALSE)]
  /\ env = [reqs |-> {Req(<<"/api", "/export", "/csv">>, "42")}, entries |-> {"check"},
            ticks |-> StallTicks, track |-> FALSE, wait |-> TRUE]
  /\ budget = StallCalls
  /\ export_jobs = NoJobs
  /\ tasks = NoJobs

SpecStall == InitStall /\ [][NextSeq]_vars

\* an empty store and empty export_jobs, the clients cs idle, b calls to make
InitStore(cs, ticks, b) ==
  /\ store = [k \in {} |-> [val |-> 0, exp |-> NoExpiry]]
  /\ storeUp = TRUE
  /\ now = 0
  /\ pc = [c \in cs |-> "idle"]
  /\ call = [c \in cs |-> BlankCall]
  /\ hist = [k \in {} |-> FreshHist(FALSE)]
  /\ env = [reqs |-> {}, entries |-> {}, ticks |-> ticks, track |-> FALSE, wait |-> FALSE]
  /\ budget = b
  /\ export_jobs = NoJobs
  /\ tasks = NoJobs

NextCache ==
  \/ \E c \in Callers : CacheCheck(c)
  \/ \E c \in Callers : CacheGet(c)
  \/ \E c \in Callers : CacheSetex(c)
  \/ \E c \in Callers : CacheIncr(c)
  \/ \E c \in Callers : Return(c)
  \/ StoreFail
  \/ StoreRecover
  \/ Tick

\* RateLimitCache.check_rate_limit called by one client at a time, CacheCalls times in
\* all, with a store that may fail and a clock that advances by the window
SpecCacheSeq == InitStore({1}, CacheTicks, CacheCalls) /\ [][NextCache]_vars

\* the same with CacheCallers concurrent calls
SpecCache == InitStore(1..CacheCallers, CacheTicks, CacheCalls) /\ [][NextCache]_vars

NextUser ==
  \/ \E c \in Callers : set_user(c)
  \/ \E c \in Callers : set_user_by_email(c)
  \/ \E c \in Callers : invalidate_user(c)
  \/ \E c \in Callers : InvalidateUserEntry(c)
  \/ \E c \in Callers : InvalidateEmailEntry(c)
  \/ \E c \in Callers : Return(c)
  \/ StoreFail
  \/ StoreRecover

\* one client of the user cache: entries are stored and invalidated, UserCalls calls
\* in all, with a store that may fail
SpecUser == InitStore({1}, {}, UserCalls) /\ [][NextUser]_vars

NextSession ==
  \/ \E c \in Callers : create_session(c)
  \/ \E c \in Callers : update_session(c)
  \/ \E c \in Callers : get_session(c)
  \/ \E c \in Callers : delete_session(c)
  \/ \E c \in Callers : refresh_session(c)
  \/ \E c \in Callers : Return(c)
  \/ StoreFail
  \/ StoreRecover
  \/ Tick

\* one client of the session cache, SessionCalls calls in all, with a store that may
\* fail and sessions that expire
SpecSession == InitStore({1}, CacheTicks, SessionCalls) /\ [][NextSession]_vars

NextExport ==
  \/ \E c \in Callers : export_create(c)
  \/ \E c \in Callers : get_export_status(c)
  \/ \E c \in Callers : download_export(c)
  \/ \E c \in Callers : Return(c)
  \/ \E export_id \in 1..MaxJobs : TaskStart(export_id)
  \/ \E export_id \in 1..MaxJobs : TaskHalf(export_id)
  \/ \E export_id \in 1..MaxJobs : TaskFinish(export_id)

\* one client of the export API: up to MaxJobs exports are created, their tasks run
\* interleaved with ExportCalls requests in all
SpecExport == InitStore({1}, {}, ExportCalls) /\ [][NextExport]_vars

\* the event loop runs every background task that was added: each step of a task
\* that can be taken is eventually taken
SpecExportLive ==
  /\ SpecExport
  /\ \A export_id \in 1..MaxJobs :
       /\ WF_vars(TaskStart(export_id))
       /\ WF_vars(TaskHalf(export_id))
       /\ WF_vars(TaskFinish(export_id))

\* the request of the status scenario: the tier with the smallest limit
PeekRequests == {Req(<<"/api", "/export", "/csv">>, Null)}

\* PeekCallers clients check and ask for their status concurrently, PeekCalls times in
\* all, against a healthy store
InitPeek == InitWith(1..PeekCallers, PeekRequests, {"check", "status"}, PeekCalls, {}, FALSE)

NextPeek ==
  \/ \E c \in Callers : Request(c)
  \/ \E c \in Callers : Resolve(c)
  \/ \E c \in Callers : GetCount(c)
  \/ \E c \in Callers : Increment(c)
  \/ \E c \in Callers : StatusGet(c)
  \/ \E c \in Callers : StatusTtl(c)
  \/ \E c \in Callers : Return(c)

SpecPeek == InitPeek /\ [][NextPeek]_vars

\* the clients of the administration scenario: two under ocr, one of them also
\* under export
AdminRequests ==
  {Req(<<"/api", "/extract-meter-reading">>, "42"), Req(<<"/api", "/extract-meter-reading">>, Null),
   Req(<<"/api", "/export", "/csv">>, "42")}

\* one client or operator at a time: checks, resets and statistics, AdminCalls in
\* all, with a store that may fail
InitAdmin == InitWith({1}, AdminRequests, {"check"}, AdminCalls, AdminTicks, FALSE)

NextAdmin ==
  \/ \E c \in Callers : Request(c)
  \/ \E c \in Callers : Resolve(c)
  \/ \E c \in Callers : GetCount(c)
  \/ \E c \in Callers : Increment(c)
  \/ \E c \in Callers : reset_rate_limit(c)
  \/ \E c \in Callers : StatsKeys(c)
  \/ \E c \in Callers : StatsRead(c)
  \/ \E c \in Callers : Return(c)
  \/ StoreFail
  \/ StoreRecover
  \/ Tick

SpecAdmin == InitAdmin /\ [][NextAdmin]_vars

(***************************************************************************)
(* Properties.                                                             *)
(***************************************************************************)
Decided(cl) == cl.kind \in {"allowed", "denied", "failopen"}

\* C1: one client, one call at a time, in a window that began with no counter: the
\* k-th call (k <= max) is allowed with remaining = max - k and retry_after = 0, the
\* (max+1)-th is denied with remaining = 0 and retry_after = window; for auth the
\* limit is 5 and the window 300.
C1_KthCall ==
  \A c \in Callers :
    LET cl == call[c]
        config == PolicyFor(cl.endpoint_type)
    IN  (cl.kind \in {"allowed", "denied"} /\ cl.clean) =>
          /\ cl.seq <= config.requests =>
               /\ cl.result.allowed
               /\ cl.result.remaining = config.requests - cl.seq
               /\ cl.result.retry_after = 0
          /\ cl.seq = config.requests + 1 =>
               /\ ~cl.result.allowed
               /\ cl.result.remaining = 0
               /\ cl.result.retry_after = config.window
          /\ cl.endpoint_type = "auth" =>
               /\ cl.seq <= 5 => cl.result.remaining = 5 - cl.seq
               /\ cl.seq = 6 => (~cl.result.allowed /\ cl.result.retry_after = 300)

C1_Witness ==
  \E c \in Callers :
    /\ call[c].kind = "denied" /\ call[c].clean /\ call[c].seq = 6
    /\ call[c].endpoint_type = "auth" /\ call[c].result.retry_after = 300

\* C2: a check_rate_limit call whose GET or pipeline raised returns allowed with
\* remaining = max - 1 and retry_after = 0, is never answered with 429, and made no
\* store call after the one that raised (no retry); a role lookup that raised leaves
\* the request under its path tier.
C2_FailOpen ==
  \A c \in Callers :
    LET cl == call[c]
        config == PolicyFor(cl.endpoint_type)
    IN  /\ (cl.entry # "status" /\ cl.raised \in {"GET", "PIPELINE"}) =>
             /\ cl.kind = "failopen"
             /\ cl.result.allowed
             /\ cl.result.remaining = config.requests - 1
             /\ cl.result.retry_after = 0
             /\ cl.status # 429
             /\ cl.ops[Len(cl.ops)] = cl.raised
             /\ Cardinality({i \in 1..Len(cl.ops) : cl.ops[i] = cl.raised}) = 1
        /\ cl.roleRaised => (~cl.admin /\ (cl.endpoint_type # "" => cl.endpoint_type # "admin"))

C2_Witness ==
  \E c \in Callers :
    /\ call[c].raised = "PIPELINE" /\ call[c].entry = "middleware"
    /\ pc[c] = "done" /\ call[c].handled

\* C3 as stated: the stored counter never exceeds max_requests + 1.
C3_AtMostOneOver ==
  \A k \in DOMAIN store : IsCounterKey(k) => store[k].val <= PolicyFor(k[2]).requests + 1

\* C3 as amended: with N calls executing concurrently, the stored counter plus the
\* calls that passed the comparison and have not incremented yet never exceeds
\* max_requests + N - 1.
C3_AtMostCallersOver ==
  \A k \in DOMAIN store :
    IsCounterKey(k) =>
      store[k].val + Cardinality({c \in Callers : pc[c] = "incr" /\ call[c].key = k})
        <= PolicyFor(k[2]).requests + Cardinality(Callers) - 1

C3_Witness ==
  \E k \in DOMAIN store :
    /\ IsCounterKey(k)
    /\ store[k].val = PolicyFor(k[2]).requests + Cardinality(Callers) - 1
    /\ store[k].val > PolicyFor(k[2]).requests + 1

\* C4 as stated: a request that increments an existing counter leaves its expiry
\* unchanged (the TTL is set once, by the first counted request of the window).
C4_TtlSetOnce ==
  [][\A k \in DOMAIN store \cap DOMAIN store' :
       (IsCounterKey(k) /\ store'[k].val = store[k].val + 1) => store'[k].exp = store[k].exp]_vars

\* C5: after a window that ended at the limit has expired, the next call is allowed,
\* re-creates the counter at 1 with a TTL of window_seconds and returns max - 1.
C5_AllowedAfterExpiry ==
  \A c \in Callers :
    LET cl == call[c]
        config == PolicyFor(cl.endpoint_type)
    IN  (Decided(cl) /\ cl.afterExhaust /\ cl.seq = 1) =>
          /\ cl.result.allowed
          /\ cl.result.remaining = config.requests - 1
          /\ cl.wrote = [val |-> 1, ttl |-> config.window]

C5_Witness ==
  \E c \in Callers :
    /\ call[c].kind = "allowed" /\ call[c].afterExhaust /\ call[c].seq = 1
    /\ call[c].endpoint_type = "export" /\ call[c].wrote = [val |-> 1, ttl |-> 300]

\* C6: with N concurrent calls on one counter, neither the counter nor the number of
\* calls allowed during one lifetime of the counter exceeds max_requests + N - 1.
C6_BoundedOvershoot ==
  \A k \in DOMAIN hist :
    LET bound == PolicyFor(k[2]).requests + Cardinality(Callers) - 1
    IN  /\ hist[k].allowed <= bound
        /\ k \in DOMAIN store => store[k].val <= bound

C6_Witness ==
  \E k \in DOMAIN hist :
    /\ hist[k].allowed = PolicyFor(k[2]).requests + Cardinality(Callers) - 1
    /\ \A c \in Callers : pc[c] = "done" => call[c].kind = "denied"
    /\ \E c \in Callers : pc[c] = "done"

\* C7 as stated: an allowed call never returns more than the allowed call before it
\* in the window, and the allowed call that creates the counter of a new window
\* returns max - 1.
C7_NeverIncreases ==
  \A c \in Callers :
    LET cl == call[c]
    IN  cl.kind = "allowed" =>
          /\ cl.prevRem # 0 - 1 => cl.result.remaining <= cl.prevRem
          /\ cl.wrote.val = 1 => cl.result.remaining = PolicyFor(cl.endpoint_type).requests - 1

\* C7 as amended: the same, for calls whose counter did not expire between their GET
\* and their pipeline, compared with such calls.
C7_NeverIncreasesWithinLifetime ==
  \A c \in Callers :
    LET cl == call[c]
    IN  (cl.kind = "allowed" /\ ~cl.stale) =>
          /\ (cl.prevRem # 0 - 1 /\ ~cl.prevStale) => cl.result.remaining <= cl.prevRem
          /\ cl.wrote.val = 1 => cl.result.remaining = PolicyFor(cl.endpoint_type).requests - 1

C7_Witness ==
  \E c \in Callers :
    /\ call[c].kind = "allowed" /\ ~call[c].stale
    /\ call[c].prevRem # 0 - 1 /\ ~call[c].prevStale
    /\ call[c].result.remaining < call[c].prevRem
    /\ call[c].afterExhaust

\* C8 as stated: no route handler runs for a request unless check_rate_limit was
\* invoked for it first.
C8_CheckedBeforeHandler ==
  \A c \in Callers : (pc[c] = "handler" \/ call[c].handled) => call[c].checked

C10_AdminOverride ==
  \A c \in Callers :
    LET cl == call[c]
    IN  cl.admin =>
          /\ cl.endpoint_type = "admin"
          /\ cl.key = <<"rate_limit", "admin">> \o cl.identifier
          /\ Decided(cl) => cl.result.limit = 200
          /\ cl.kind = "denied" => cl.result.retry_after = 60
          /\ (Decided(cl) /\ cl.entry = "check" /\ pc[c] = "done") => cl.result.reset_time = now + 60
          /\ cl.kind = "status" => (cl.report.limit = 200 /\ cl.report.window = 60)
          /\ cl.touched \subseteq {cl.key}
          /\ _get_rate_limit_key(cl.identifier, _get_endpoint_type(cl.req)) \notin cl.touched

C10_Witness ==
  \E c \in Callers :
    /\ call[c].admin /\ call[c].kind = "allowed" /\ call[c].touched = {call[c].key}
    /\ _get_endpoint_type(call[c].req) = "export"
    /\ _get_rate_limit_key(call[c].identifier, "export") \in DOMAIN store

\* the subject the token of a request carries, Null when it carries none: no
\* credential, fewer than two parts, a payload that does not decode, or neither claim
UsableSubject(req) ==
  IF ~req.bearer \/ req.token.parts < 2 \/ ~req.token.payload.json THEN Null
  ELSE IF req.token.payload.sub # Null THEN req.token.payload.sub
  ELSE req.token.payload.user_id

Resolved(c) == pc[c] \notin {"idle", "resolve"}

\* C11 as stated: a request whose bearer token yields no usable subject (malformed,
\* payload not base64 JSON, or neither sub nor user_id) is identified by the
\* fingerprint of its address and user agent and never as user:<...>.
C11_FallbackToFingerprint ==
  \A c \in Callers :
    LET cl == call[c]
    IN  (Resolved(c) /\ cl.req.bearer /\ UsableSubject(cl.req) = Null) =>
          /\ cl.identifier = <<Md5Hex(cl.req.ip, cl.req.ua)>>
          /\ cl.identifier[1] # "user"

\* C12: reset_rate_limit on a counter that has reached its limit returns True and
\* removes exactly that key, every other key keeping its value and expiry; the next
\* check_rate_limit on the pair that reaches the store is allowed with remaining =
\* max - 1.
C12_ResetAllowsNext ==
  \A c \in Callers :
    LET cl == call[c]
        config == PolicyFor(cl.endpoint_type)
    IN  /\ (cl.kind = "reset" /\ cl.raised = "" /\ LimitReached(cl.read, config)) =>
             /\ cl.ok
             /\ cl.key = <<"rate_limit", cl.endpoint_type>> \o cl.identifier
             /\ cl.touched = {cl.key}
             /\ cl.key \notin DOMAIN store
        /\ (cl.afterReset /\ cl.kind \in {"allowed", "denied"}) =>
             /\ cl.result.allowed
             /\ cl.result.remaining = config.requests - 1

C12_Witness ==
  \E c \in Callers :
    /\ call[c].afterReset /\ call[c].kind = "allowed" /\ call[c].endpoint_type = "export"
    /\ call[c].result.remaining = 2
    /\ \E k \in DOMAIN store : IsCounterKey(k) /\ k # call[c].key /\ store[k].val > 0

\* C13: no step of get_rate_limit_status changes the store (every key keeps its value
\* and expiry, so the checks around it decide as they would without it), and the
\* status it returns has remaining = max(0, max_requests - count) for the count read.
C13_PeekReadOnly ==
  /\ [](\A c \in Callers :
          LET cl == call[c]
              config == PolicyFor(cl.endpoint_type)
          IN  (cl.kind = "status" /\ cl.raised = "") =>
                /\ cl.report.limit = config.requests
                /\ cl.report.remaining >= 0
                /\ cl.read <= config.requests => cl.report.remaining = config.requests - cl.read
                /\ cl.read > config.requests => cl.report.remaining = 0
                /\ cl.touched = {}
                /\ \A i \in 1..Len(cl.ops) : cl.ops[i] \in {"GET user_role", "GET", "TTL"})
  /\ [][\A c \in Callers :
          (call'[c].entry = "status" /\ pc'[c] # pc[c]) => (store' = store /\ hist' = hist)]_vars

C13_Witness ==
  \E c \in Callers :
    /\ call[c].kind = "status" /\ call[c].raised = "" /\ pc[c] = "done"
    /\ call[c].read > PolicyFor(call[c].endpoint_type).requests
    /\ call[c].report.remaining = 0
    /\ store[call[c].key].val = call[c].read

RECURSIVE SumOfCounts(_, _)
SumOfCounts(s, keys) ==
  IF keys = {} THEN 0
  ELSE LET k == CHOOSE j \in keys : TRUE IN s[k].val + SumOfCounts(s, keys \ {k})

\* the counter keys of tier t in store s, and the identifiers they belong to
TierKeys(s, t) == {k \in DOMAIN s : IsCounterKey(k) /\ k[2] = t}

TierIdentifiers(s, t) == {SubSeq(k, 3, Len(k)) : k \in TierKeys(s, t)}

\* C14: get_rate_limit_stats, when no counter expired while it ran, reports exactly
\* the tiers that have a counter key and, for each, the number of distinct
\* identifiers with a key rate_limit:<tier>:<identifier> (identifiers user:<id>
\* included) and the sum of their counts; two identifiers under ocr with 3 counted
\* requests each give ocr: 2 clients, 6 requests.
C14_StatsPerTier ==
  \A c \in Callers :
    LET cl == call[c]
        es == cl.stats.endpoint_stats
    IN  (cl.kind = "stats" /\ cl.raised = "" /\ ~cl.stale) =>
          /\ ~cl.stats.error
          /\ DOMAIN es = {k[2] : k \in RedisKeys(store)}
          /\ \A t \in DOMAIN es :
               /\ es[t].clients = Cardinality(TierIdentifiers(store, t))
               /\ es[t].total_requests = SumOfCounts(store, TierKeys(store, t))
          /\ (/\ TierIdentifiers(store, "ocr") = {<<"user", "42">>, <<Md5Hex("10.0.0.1", "curl")>>}
              /\ \A k \in TierKeys(store, "ocr") : store[k].val = 3)
             => es["ocr"] = [clients |-> 2, total_requests |-> 6]

C14_Witness ==
  \E c \in Callers :
    /\ call[c].kind = "stats" /\ call[c].raised = "" /\ ~call[c].stale
    /\ <<"rate_limit", "ocr", "user", "42">> \in DOMAIN store
    /\ "ocr" \in DOMAIN call[c].stats.endpoint_stats
    /\ call[c].stats.endpoint_stats["ocr"] = [clients |-> 2, total_requests |-> 6]

\* C15 as stated: the detail of every 429 names the tier check_rate_limit enforced
\* (after path classification and admin override) and that tier's window.
C15_DetailNamesEnforcedTier ==
  \A c \in Callers :
    LET cl == call[c]
    IN  cl.status = 429 =>
          /\ cl.detail.tier = cl.endpoint_type
          /\ IntOf(cl.detail.window) = PolicyFor(cl.endpoint_type).window

\* C16: the tier of a request without admin role is decided by its path alone, by
\* ordered rules, first match wins: '/extract-meter-reading' gives ocr; else '/upload'
\* upload; else '/login', '/signup' or '/refresh' auth; else '/export' export; else
\* default.  Two requests with the same path get the same tier, and every tier
\* returned is a key of the policy table.
C16_OrderedRules ==
  \A c \in Callers :
    LET cl == call[c]
        t == cl.endpoint_type
        has(m) == \E i \in 1..Len(cl.req.path) : cl.req.path[i] = m
        ocr == has("/extract-meter-reading")
        upload == has("/upload")
        auth == has("/login") \/ has("/signup") \/ has("/refresh")
        export == has("/export")
    IN  (Resolved(c) /\ ~cl.admin) =>
          /\ t \in DOMAIN rate_limits
          /\ PolicyFor(t) = rate_limits[t]
          /\ ocr => t = "ocr"
          /\ (~ocr /\ upload) => t = "upload"
          /\ (~ocr /\ ~upload /\ auth) => t = "auth"
          /\ (~ocr /\ ~upload /\ ~auth /\ export) => t = "export"
          /\ (~ocr /\ ~upload /\ ~auth /\ ~export) => t = "default"
          /\ \A d \in Callers :
               (Resolved(d) /\ ~call[d].admin /\ call[d].req.path = cl.req.path)
                 => call[d].endpoint_type = t

C16_Witness ==
  \E c, d \in Callers :
    /\ c # d /\ Resolved(c) /\ Resolved(d)
    /\ call[c].req.path = <<"/export", "/refresh">>
    /\ call[c].endpoint_type = "auth" /\ call[d].endpoint_type = "auth"

C18_AdminFailuresReported ==
  \A c \in Callers :
    LET cl == call[c]
    IN  /\ (cl.entry = "reset" /\ pc[c] = "done") =>
             /\ cl.kind = "reset"
             /\ cl.ok <=> cl.raised = ""
             /\ cl.raised # "" => cl.touched = {}
        /\ (cl.entry = "stats" /\ pc[c] = "done") =>
             /\ cl.kind = "stats"
             /\ cl.stats.error <=> cl.raised # ""
             /\ cl.raised # "" => DOMAIN cl.stats = {"error"}
             /\ cl.raised = "" => "endpoint_stats" \in DOMAIN cl.stats

C18_Witness ==
  \E c \in Callers :
    /\ call[c].entry = "stats" /\ pc[c] = "done" /\ call[c].raised = "GET"
    /\ Len(call[c].ops) = 3 /\ call[c].stats = StatsError
    /\ ~storeUp /\ RedisKeys(store) # {}

\* C19: a request is treated as admin exactly when its token yields a subject, the
\* role lookup did not raise and user_role:<subject> holds 'admin'; with no
\* credential, no role key, another role or a store error it is not, resolution
\* still completes, and the request is checked under the tier of its path.
C19_AdminOnlyByStoredRole ==
  \A c \in Callers :
    LET cl == call[c]
        subject == UsableSubject(cl.req)
    IN  Resolved(c) =>
          /\ cl.admin <=> /\ subject # Null
                          /\ ~cl.roleRaised
                          /\ RoleKey(subject) \in DOMAIN store
                          /\ store[RoleKey(subject)].val = "admin"
          /\ ~cl.admin => cl.endpoint_type = _get_endpoint_type(cl.req)
          /\ ~cl.admin => cl.key = _get_rate_limit_key(cl.identifier, _get_endpoint_type(cl.req))

C19_Witness ==
  \E c, d \in Callers :
    /\ Resolved(c) /\ Resolved(d)
    /\ UsableSubject(call[c].req) = "7" /\ UsableSubject(call[d].req) = "7"
    /\ call[c].admin /\ call[c].endpoint_type = "admin"
    /\ call[d].roleRaised /\ ~call[d].admin /\ call[d].endpoint_type = "export"

\* C20: the step in which check_rate_limit decides allowed = false leaves every key
\* of the store with its value and expiry, and a denied call made no store call after
\* its GET: repeating a denied request never moves the expiry of the counter.
C20_DenialWritesNothing ==
  /\ [][\A c \in Callers :
          (pc[c] = "get" /\ call'[c].kind = "denied") => store' = store]_vars
  /\ [](\A c \in Callers :
          LET cl == call[c]
          IN  cl.kind = "denied" =>
                /\ cl.touched = {}
                /\ cl.ops[Len(cl.ops)] = "GET"
                /\ pc[c] = "done" =>
                     /\ cl.key \in DOMAIN store
                     /\ LimitReached(store[cl.key].val, PolicyFor(cl.endpoint_type)))

C20_Witness ==
  \E c \in Callers :
    /\ call[c].kind = "denied" /\ pc[c] = "done" /\ now = 60
    /\ call[c].endpoint_type = "export"
    /\ RedisTtl(store, call[c].key, now) = 240

\* every counter key carries an expiry, at most window seconds ahead
CountersExpire ==
  \A k \in DOMAIN store :
    IsCounterKey(k) =>
      /\ store[k].exp # NoExpiry
      /\ RedisTtl(store, k, now) <= PolicyFor(k[2]).window
      /\ RedisTtl(store, k, now) > 0

\* the step in which a call is decided reports a reset_time that is not earlier than
\* the expiry its counter has after the step
ResetTimeCoversExpiry ==
  \A c \in Callers :
    (pc[c] \in {"get", "incr"} /\ pc'[c] = "done" /\ call'[c].key \in DOMAIN store')
      => call'[c].result.reset_time >= store'[call'[c].key].exp

C22_OwnKeyOnly ==
  /\ [][\A c \in Callers :
          pc'[c] # pc[c] => Changed(store, store') \subseteq {call[c].key}]_vars
  /\ [](/\ \A c, d \in Callers :
             (/\ Resolved(c) /\ Resolved(d)
              /\ \/ call[c].identifier # call[d].identifier
                 \/ call[c].endpoint_type # call[d].endpoint_type)
               => call[c].key # call[d].key
        /\ \A c \in Callers :
             /\ call[c].touched \subseteq {call[c].key}
             /\ Resolved(c) =>
                  call[c].key = <<"rate_limit", call[c].endpoint_type>> \o call[c].identifier
        /\ \A k \in DOMAIN store : IsCounterKey(k) => store[k].val = H(k).allowed)

C22_Witness ==
  \E c, d \in Callers :
    /\ call[c].kind = "allowed" /\ call[d].kind = "allowed"
    /\ call[c].identifier # call[d].identifier
    /\ call[c].endpoint_type = call[d].endpoint_type
    /\ call[c].result.remaining = 2 /\ call[d].result.remaining = 2
    /\ store[call[c].key].val = 1 /\ store[call[d].key].val = 1

\* C23: RateLimitCache.check_rate_limit called sequentially: with the key absent it
\* stores count 1 with a TTL of window and returns (True, limit - 1); with a stored
\* count c < limit (the key still there when it is incremented) it stores c + 1 and
\* returns (True, limit - c - 1); with c >= limit it returns (False, 0) and changes
\* nothing; when a store call raised it returns (True, limit).
C23_CacheCheckSequential ==
  \A c \in Callers :
    LET cl == call[c]
        limit == CacheArgs.limit
    IN  (cl.entry = "cache" /\ pc[c] = "done") =>
          /\ cl.raised # "" => (cl.ret = <<TRUE, limit>> /\ cl.touched = {})
          /\ (cl.raised = "" /\ ~cl.found) =>
               /\ cl.ret = <<TRUE, limit - 1>>
               /\ store[cl.key] = [val |-> 1, exp |-> now + CacheArgs.window]
          /\ (cl.raised = "" /\ cl.found /\ cl.read < limit) =>
               /\ cl.ret = <<TRUE, limit - cl.read - 1>>
               /\ cl.ops = <<"GET", "INCR">>
               /\ ~cl.stale => store[cl.key].val = cl.read + 1
          /\ (cl.found /\ cl.read >= limit) =>
               /\ cl.ret = <<FALSE, 0>>
               /\ cl.touched = {}
               /\ cl.raised = ""

C23_Witness ==
  \E c \in Callers :
    /\ call[c].entry = "cache" /\ pc[c] = "done" /\ call[c].ret = <<FALSE, 0>>
    /\ store[call[c].key].val = CacheArgs.limit /\ now > 0

\* the counter keys accuread:rate_limit:<identifier> held by the store
CacheCounterKeys == {k \in DOMAIN store : Len(k) = 3 /\ k[1] = "accuread" /\ k[2] = "rate_limit"}

\* C24: under any interleaving of concurrent check_rate_limit calls with key expiry,
\* every counter key accuread:rate_limit:<identifier> carries a TTL at all times.
C24_CounterKeysCarryTtl ==
  \A k \in CacheCounterKeys : store[k].exp # NoExpiry /\ store[k].exp > now

\* C25: under any interleaving of concurrent check_rate_limit calls for one
\* identifier, the stored count equals the number of calls allowed in the current
\* window, also when several calls observed the key as absent.
C25_CountEqualsAllowed ==
  /\ \A k \in CacheCounterKeys : store[k].val = H(k).allowed
  /\ \A k \in DOMAIN hist : (k[1] = "accuread" /\ H(k).allowed > 0) => k \in DOMAIN store

\* C26: after invalidate_user(user_id, email) returns with no store error, neither
\* accuread:user:<user_id> nor accuread:user_email:<email> is in the cache, whichever
\* of the two existed before; it returns true only if both entries were deleted.
C26_InvalidateRemovesBoth ==
  \A c \in Callers :
    LET cl == call[c]
        userKey == _make_key("user", cl.args.user_id)
        emailKey == _make_key("user_email", cl.args.email)
    IN  (cl.entry = "invalidate_user" /\ pc[c] = "done" /\ cl.raised = "") =>
          /\ userKey \notin DOMAIN store
          /\ cl.args.email # Null => emailKey \notin DOMAIN store
          /\ (cl.ok /\ cl.args.email # Null) => {userKey, emailKey} \subseteq cl.before

\* C27: get_session returns None after delete_session or expiry until a later
\* create_session or update_session (and the stored data otherwise); refresh_session
\* on an absent session returns False and creates nothing; on a present session it
\* returns True and changes the expiry and nothing else.
C27_SessionLifecycle ==
  \A c \in Callers :
    LET cl == call[c]
        key == _make_key("session", cl.args.session_id)
    IN  (pc[c] = "done" /\ cl.raised = "") =>
          /\ cl.entry = "get_session" => (cl.value = H(key).live /\ cl.touched = {})
          /\ cl.entry = "delete_session" => key \notin DOMAIN store
          /\ (cl.entry = "refresh_session" /\ key \notin cl.before) =>
               (~cl.ok /\ cl.touched = {} /\ key \notin DOMAIN store)
          /\ (cl.entry = "refresh_session" /\ key \in cl.before) =>
               /\ cl.ok
               /\ cl.touched \subseteq {key}
               /\ store[key] = [val |-> JsonDumps(H(key).live), exp |-> now + cl.args.ttl]

\* a session refreshed before its expiry is read back after its first lifetime
C27_Witness ==
  \E c \in Callers :
    /\ pc[c] = "done" /\ call[c].entry = "get_session" /\ call[c].raised = ""
    /\ call[c].value \in UserData
    /\ now > 60 /\ store[_make_key("session", call[c].args.session_id)].exp = 86400 + 60

\* C28: download_export answers 404 for an unknown export_id, 400 for a job that is
\* pending, processing or failed, and a download URL only for a completed job with
\* a URL; and in every state a completed job has progress 100, a download_url and
\* a file_size.
C28_DownloadOnlyCompleted ==
  /\ [](\A export_id \in DOMAIN export_jobs :
          export_jobs[export_id].status = "completed" =>
            /\ export_jobs[export_id].progress = 100
            /\ export_jobs[export_id].download_url # NoUrl
            /\ export_jobs[export_id].file_size # NoSize)
  /\ [][\A c \in Callers :
          (pc[c] = "idle" /\ pc'[c] = "done" /\ call'[c].entry = "download_export") =>
            LET export_id == call'[c].args.export_id
                response == call'[c].value
            IN  /\ export_id \notin DOMAIN export_jobs =>
                     (response.status_code = 404 /\ response.body = None)
                /\ (export_id \in DOMAIN export_jobs
                      /\ export_jobs[export_id].status \in {"pending", "processing", "failed"})
                     => (response.status_code = 400 /\ response.body = None)
                /\ response.body # None =>
                     /\ export_id \in DOMAIN export_jobs
                     /\ export_jobs[export_id].status = "completed"
                     /\ response.status_code = 200
                     /\ response.body.download_url = export_jobs[export_id].download_url
                     /\ response.body.download_url = <<"/api/v1/export/download/", export_id>>
                     /\ response.body.file_size = FileSize(tasks[export_id].format)]_vars

C28_Witness ==
  \E c \in Callers :
    /\ pc[c] = "done" /\ call[c].entry = "download_export"
    /\ call[c].value.status_code = 200
    /\ \E export_id \in DOMAIN export_jobs : export_jobs[export_id].status = "failed"

\* C29: the status of a job only moves pending -> processing -> completed or
\* processing -> failed, completed and failed are terminal; the progress written is
\* 0, 10, 50, 90, 100 in this order on the success path and goes back to 0 only
\* together with status failed; no job is ever removed from export_jobs.
C29_StatusOnlyForward ==
  /\ [][\A export_id \in DOMAIN export_jobs :
          /\ export_id \in DOMAIN export_jobs'
          /\ export_jobs'[export_id].status # export_jobs[export_id].status =>
               <<export_jobs[export_id].status, export_jobs'[export_id].status>> \in
                 {<<"pending", "processing">>, <<"processing", "completed">>,
                  <<"processing", "failed">>}
          /\ export_jobs'[export_id].progress < export_jobs[export_id].progress =>
               /\ export_jobs'[export_id].progress = 0
               /\ export_jobs'[export_id].status = "failed"
               /\ export_jobs[export_id].status # "failed"]_vars
  /\ [](\A export_id \in DOMAIN export_jobs :
          LET job == export_jobs[export_id]
              written == tasks[export_id].progress
          IN  /\ job.progress \in {0, 10, 50, 90, 100}
              /\ job.status = "completed" => written = <<0, 10, 50, 90, 100>>
              /\ job.status = "failed" => written = <<0, 10, 50, 90, 0>>
              /\ job.status \in {"pending", "processing"} =>
                   \A i \in 1..(Len(written) - 1) : written[i] <= written[i + 1]
              /\ job.progress = 0 => job.status \in {"pending", "failed"}
              /\ tasks[export_id].statuses \in
                   {<<"pending">>, <<"pending", "processing">>,
                    <<"pending", "processing", "completed">>,
                    <<"pending", "processing", "failed">>})

C29_Witness ==
  \E i, j \in DOMAIN export_jobs :
    /\ tasks[i].statuses = <<"pending", "processing", "completed">>
    /\ tasks[j].statuses = <<"pending", "processing", "failed">>
    /\ tasks[j].progress = <<0, 10, 50, 90, 0>>

\* C30: every export job that was created eventually has status completed or failed,
\* its background task being run; a task in which an exception was raised leaves its
\* job failed, not processing.
C30_JobsTerminate ==
  /\ \A export_id \in 1..MaxJobs :
       (export_id \in DOMAIN export_jobs) ~>
         (export_id \in DOMAIN export_jobs
            /\ export_jobs[export_id].status \in {"completed", "failed"})
  /\ [](\A export_id \in DOMAIN tasks :
          tasks[export_id].raised => export_jobs[export_id].status = "failed")

C30_Witness ==
  \E i, j \in DOMAIN export_jobs :
    /\ tasks[i].raised /\ tasks[i].at = "ended" /\ export_jobs[i].status = "failed"
    /\ ~tasks[j].raised /\ tasks[j].at = "ended" /\ export_jobs[j].status = "completed"
    /\ tasks[j].format # "csv"

====
